---- MODULE Spec2Model ----
(***************************************************************************)
(* A model of the retrobrite NES emulator: the frame scheduler of main.rs, *)
(* the bus arbiter of state.rs, the PPU register ports and dot timing of   *)
(* ppu.rs, the memories of mem.rs and the NROM mapper.                     *)
(*                                                                         *)
(* Three specifications share the operators below:                         *)
(*   Spec       the scheduler from power-on, any instruction stream, over  *)
(*              a short run (the --cycles option bounds it);               *)
(*   SpecFrames the scheduler from power-on over three whole frames, the   *)
(*              instruction stream being an idle program that writes       *)
(*              PPUCTRL and PPUMASK once the PPU accepts the writes;       *)
(*   SpecPorts  the CPU's loads and stores of bus addresses, executed in   *)
(*              any order on a PPU whose registers hold any of a set of    *)
(*              values.                                                    *)
(***************************************************************************)
EXTENDS Integers, Sequences, FiniteSets, TLC

VARIABLES
  cpu,     \* Cpu: registers, cycle_count, the NMI-pending latch
  ppu,     \* Ppu: registers, OAM, read buffer, frame / scanline / scanline_cycle
  mapper,  \* NromMapper: cpu_mem, ppu_mem (mem, vram banks, mirroring), chr_ram
  nes,     \* NesState: the controller strobe, latches and shift registers
  main,    \* locals of main(): 'mainloop position, cycle, cycle_batch, max_cycles, frame_count
  gui,     \* the video sink: pixels received since the last render_frame, frames committed
  obs,     \* observations of the last 'mainloop iteration: the CPU's steps, the ticks' results
  bus      \* SpecPorts: the bus calls made, each with the Ppu before it and the value returned

vars == <<cpu, ppu, mapper, nes, main, gui, obs, bus>>

(***************************************************************************)
(* Bounds of the model.                                                    *)
(***************************************************************************)
\* Spec: the run is cut after this many CPU cycles (the --cycles option).
MaxCycles == 13
\* SpecPorts: bus calls explored in one run.
MaxPortOps == 2
\* SpecFrames: the run is cut after this many CPU cycles (three frames and a few scanlines).
MaxFrameCycles == 89600

(***************************************************************************)
(* Integer operators of the source language on unsigned values.            *)
(***************************************************************************)
RECURSIVE BitAnd(_, _)
BitAnd(a, b) ==
  IF a = 0 \/ b = 0 THEN 0
  ELSE (IF a % 2 = 1 /\ b % 2 = 1 THEN 1 ELSE 0) + 2 * BitAnd(a \div 2, b \div 2)

RECURSIVE BitOr(_, _)
BitOr(a, b) ==
  IF a = 0 THEN b
  ELSE IF b = 0 THEN a
  ELSE (IF a % 2 = 1 \/ b % 2 = 1 THEN 1 ELSE 0) + 2 * BitOr(a \div 2, b \div 2)

\* !x on a u16
Not16(a) == 65535 - a
\* x << n on a u16 (bits shifted out are lost)
Shl16(a, n) == (a * (2 ^ n)) % 65536
\* x >> n
Shr(a, n) == a \div (2 ^ n)

(***************************************************************************)
(* utils.rs                                                                *)
(***************************************************************************)
\* input & (1 << bit) != 0
bit_is_set(bit, input) == (input \div (2 ^ bit)) % 2 = 1

\* input |= 1 << bit
set_bit(bit, input) == IF bit_is_set(bit, input) THEN input ELSE input + (2 ^ bit)

\* input &= !(1 << bit)
clear_bit(bit, input) == IF bit_is_set(bit, input) THEN input - (2 ^ bit) ELSE input

set_bit_from(bit, from, output_value) ==
  IF bit_is_set(bit, from) THEN set_bit(bit, output_value) ELSE clear_bit(bit, output_value)

same_page(addr1, addr2) == (addr1 \div 256) = (addr2 \div 256)

set_bits_from_mask_u16(source, mask, dest) ==
  BitOr(BitAnd(dest, Not16(mask)), BitAnd(source, mask))

(***************************************************************************)
(* mem.rs: Memory (a byte vector) and PpuMemory.  A vector is kept as the  *)
(* function of its non-zero bytes: a byte outside the domain reads 0, as   *)
(* in a vector made by vec![0u8; size].                                    *)
(***************************************************************************)
Memory_read(mem, addr) == IF addr \in DOMAIN mem THEN mem[addr] ELSE 0

Memory_write(mem, addr, value) ==
  IF value = 0
  THEN [a \in DOMAIN mem \ {addr} |-> mem[a]]
  ELSE [a \in DOMAIN mem \cup {addr} |-> IF a = addr THEN value ELSE mem[a]]

\* Memory::get_slice(start_addr, size): the bytes start .. start + size - 1, indexed from 0
get_slice(mem, start_addr, size) ==
  [i \in 0 .. (size - 1) |-> Memory_read(mem, start_addr + i)]

OAM_SIZE == 256

\* Memory::wrapping_load on a vector of `len` bytes: data[i] goes to (addr + i), the
\* location returning to 0 when it reaches the end of the vector
wrapping_load(mem, len, addr, data) ==
  LET n == Cardinality(DOMAIN data)
      \* the offsets written to location a are r, r + len, ...; the last one stays
      r(a) == (a - addr) % len
      new(a) == IF r(a) >= n THEN Memory_read(mem, a)
                ELSE data[r(a) + len * ((n - 1 - r(a)) \div len)]
  IN [a \in {x \in 0 .. (len - 1) : new(x) # 0} |-> new(a)]

NAMETABLE_0 == 8192
NAMETABLE_3_END == 12287

\* PpuMemory::get_effective_address
PpuMemory_get_effective_address(addr) ==
  LET effective_addr == addr % 16384
  IN IF effective_addr >= 16160 /\ effective_addr <= 16383
     THEN BitAnd(effective_addr, 16159)
     ELSE effective_addr

\* a PPU wired with the horizontal and vertical arrangements exchanged
nametable_bank_swapped(mirroring, addr) ==
  LET region == (addr - NAMETABLE_0) \div 1024
  IN CASE mirroring = "OneScreen0" -> 0
       [] mirroring = "OneScreen1" -> 1
       [] mirroring = "Vertical" -> region \div 2
       [] mirroring = "Horizontal" -> region % 2

\* the VRAM bank (0 or 1) behind a nametable address under a mirroring mode
nametable_bank(mirroring, addr) ==
  LET region == (addr - NAMETABLE_0) \div 1024
  IN CASE mirroring = "OneScreen0" -> 0
       [] mirroring = "OneScreen1" -> 1
       [] mirroring = "Vertical" -> region % 2
       [] mirroring = "Horizontal" -> region \div 2

PpuMemory_read_nametable(pm, addr) ==
  LET vram_addr == (addr - NAMETABLE_0) % 1024
  IN IF nametable_bank(pm.mirroring, addr) = 0
     THEN Memory_read(pm.vram_bank0, vram_addr)
     ELSE Memory_read(pm.vram_bank1, vram_addr)

PpuMemory_write_nametable(pm, addr, value) ==
  LET vram_addr == (addr - NAMETABLE_0) % 1024
  IN IF nametable_bank(pm.mirroring, addr) = 0
     THEN [pm EXCEPT !.vram_bank0 = Memory_write(pm.vram_bank0, vram_addr, value)]
     ELSE [pm EXCEPT !.vram_bank1 = Memory_write(pm.vram_bank1, vram_addr, value)]

PpuMemory_read(pm, a) ==
  LET read(addr) == IF addr >= NAMETABLE_0 /\ addr <= NAMETABLE_3_END
                    THEN PpuMemory_read_nametable(pm, addr)
                    ELSE Memory_read(pm.mem, addr)
  IN read(PpuMemory_get_effective_address(a))

\* a palette RAM without the aliasing of the backdrop entries
PpuMemory_write_unpaired(pm, a, value) ==
  LET write(addr) ==
        IF addr >= NAMETABLE_0 /\ addr <= NAMETABLE_3_END
        THEN PpuMemory_write_nametable(pm, addr, value)
        ELSE [pm EXCEPT !.mem = Memory_write(pm.mem, addr, value)]
  IN write(PpuMemory_get_effective_address(a))

PpuMemory_write(pm, a, value) ==
  LET pair(lo, hi) == [pm EXCEPT !.mem = Memory_write(Memory_write(pm.mem, lo, value), hi, value)]
      write(addr) ==
        IF addr >= NAMETABLE_0 /\ addr <= NAMETABLE_3_END
        THEN PpuMemory_write_nametable(pm, addr, value)
        ELSE IF addr \in {16128, 16144} THEN pair(16128, 16144)
        ELSE IF addr \in {16132, 16148} THEN pair(16132, 16148)
        ELSE IF addr \in {16136, 16152} THEN pair(16136, 16152)
        ELSE IF addr \in {16140, 16156} THEN pair(16140, 16156)
        ELSE [pm EXCEPT !.mem = Memory_write(pm.mem, addr, value)]
  IN write(PpuMemory_get_effective_address(a))

(***************************************************************************)
(* mappers/m000_nrom.rs: mapper 0.                                         *)
(***************************************************************************)
Mapper_cpu_read(m, addr) == Memory_read(m.cpu_mem, addr)

Mapper_cpu_write(m, addr, value) ==
  IF addr < 32768
  THEN [m EXCEPT !.cpu_mem = Memory_write(m.cpu_mem, addr, value)]
  ELSE m

get_cpu_dma_slice(m, addr) == get_slice(m.cpu_mem, addr, 256)

Mapper_ppu_read(m, addr) == PpuMemory_read(m.ppu_mem, addr)

Mapper_ppu_write(m, addr, value) ==
  IF addr <= 8191
  THEN IF m.chr_ram THEN [m EXCEPT !.ppu_mem = PpuMemory_write(m.ppu_mem, addr, value)] ELSE m
  ELSE [m EXCEPT !.ppu_mem = PpuMemory_write(m.ppu_mem, addr, value)]

(***************************************************************************)
(* ppu.rs: the registers and the register ports.  ppu_ctrl and ppu_mask    *)
(* hold the raw byte; the fields PpuCtrl::update and PpuMask::update parse *)
(* out of it are the operators below.                                      *)
(***************************************************************************)
get_vram_increment(p) == IF bit_is_set(2, p.ppu_ctrl) THEN 32 ELSE 1

\* a sprite size that is 8x8 whatever PPUCTRL holds
get_sprite_size_8x8(p) == "Sprite8x8"

get_sprite_size(p) == IF bit_is_set(5, p.ppu_ctrl) THEN "Sprite8x16" ELSE "Sprite8x8"

get_nmi_generate(p) == bit_is_set(7, p.ppu_ctrl)

render_bg(p) == bit_is_set(3, p.ppu_mask)

render_sprites(p) == bit_is_set(4, p.ppu_mask)

\* a PPU that takes only the background's enable for rendering
rendering_enabled_bg_only(p) == render_bg(p)

rendering_enabled(p) == render_bg(p) \/ render_sprites(p)

toggle(w) == IF w = "FirstWrite" THEN "SecondWrite" ELSE "FirstWrite"

\* a pre-render line that clears the vertical blank flag only
clear_ppu_status_flags_vblank_only(p) == [p EXCEPT !.ppu_status = clear_bit(7, p.ppu_status)]

clear_ppu_status_flags(p) ==
  [p EXCEPT !.ppu_status = clear_bit(5, clear_bit(6, clear_bit(7, p.ppu_status)))]

\* a PPU that leaves PPUSTATUS alone at the start of vertical blank
set_vblank_flag_dropped(p) == p

set_vblank_flag(p) == [p EXCEPT !.ppu_status = set_bit(7, p.ppu_status)]

\* a PPUCTRL port that leaves the nametable select of t alone
write_2000_ppuctrl_keeps_t(p, value) == [p EXCEPT !.ppu_ctrl = value]

write_2000_ppuctrl(p, value) ==
  [p EXCEPT !.ppu_ctrl = value,
            !.t = set_bits_from_mask_u16(Shl16(value, 10), 3072, p.t)]

\* a port that drops the write of PPUMASK
write_2001_ppumask_dropped(p, value) == p

write_2001_ppumask(p, value) == [p EXCEPT !.ppu_mask = value]

\* a status read that leaves V set
read_2002_ppustatus_keeps_v(p) ==
  [ppu |-> [p EXCEPT !.w = "FirstWrite"], value |-> p.ppu_status]

\* the new Ppu and the byte returned
read_2002_ppustatus(p) ==
  [ppu |-> [p EXCEPT !.ppu_status = clear_bit(7, p.ppu_status), !.w = "FirstWrite"],
   value |-> p.ppu_status]

\* a port that drops the write of OAMADDR
write_2003_oamaddr_dropped(p, value) == p

write_2003_oamaddr(p, value) == [p EXCEPT !.oam_addr = value]

read_2004_oamdata(p) ==
  IF p.scanline <= 239 /\ p.scanline_cycle >= 1 /\ p.scanline_cycle <= 64
  THEN 255
  ELSE Memory_read(p.oam, p.oam_addr)

write_2004_oamdata(p, value) ==
  [p EXCEPT !.oam = Memory_write(p.oam, p.oam_addr, value),
            !.oam_addr = (p.oam_addr + 1) % 256]

write_2005_ppuscroll(p, value) ==
  IF p.w = "FirstWrite"
  THEN [p EXCEPT !.t = set_bits_from_mask_u16(Shr(value, 3), 31, p.t),
                 !.x = BitAnd(value, 7),
                 !.w = toggle(p.w)]
  ELSE [p EXCEPT !.t = set_bits_from_mask_u16(Shl16(value, 2), 992,
                          set_bits_from_mask_u16(Shl16(value, 12), 28672, p.t)),
                 !.w = toggle(p.w)]

\* a port whose second write updates t and leaves v alone
write_2006_ppuaddr_no_copy(p, value) ==
  IF p.w = "FirstWrite"
  THEN [p EXCEPT !.t = set_bits_from_mask_u16(Shl16(BitAnd(value, 63), 8), 65280, p.t),
                 !.w = toggle(p.w)]
  ELSE [p EXCEPT !.t = BitAnd(set_bits_from_mask_u16(value, 255, p.t), 16383),
                 !.w = toggle(p.w)]

write_2006_ppuaddr(p, value) ==
  IF p.w = "FirstWrite"
  THEN [p EXCEPT !.t = set_bits_from_mask_u16(Shl16(BitAnd(value, 63), 8), 65280, p.t),
                 !.w = toggle(p.w)]
  ELSE LET copy(t1) == [p EXCEPT !.t = t1, !.v = t1, !.w = toggle(p.w)]
       IN copy(BitAnd(set_bits_from_mask_u16(value, 255, p.t), 16383))

\* v += vram_increment on a u16; the sum leaves the u16 range only after v passed
\* 0xFFDF, which the runs explored here never reach
add_vram_increment(p) == (p.v + get_vram_increment(p)) % 65536

\* the new Ppu and the new mapper
write_2007_ppudata(p, m, value) ==
  [ppu |-> [p EXCEPT !.v = add_vram_increment(p)],
   mapper |-> Mapper_ppu_write(m, p.v, value)]

\* a data read without the read buffer: the byte at v is returned at once
read_2007_ppudata_unbuffered(p, m) ==
  [ppu |-> [p EXCEPT !.v = (p.v + get_vram_increment(p)) % 65536],
   value |-> Mapper_ppu_read(m, p.v)]

\* the new Ppu and the byte returned
read_2007_ppudata(p, m) ==
  IF p.v > 16127
  THEN [ppu |-> [p EXCEPT !.v = add_vram_increment(p)],
        value |-> Mapper_ppu_read(m, p.v)]
  ELSE [ppu |-> [p EXCEPT !.ppudata_read_buffer = Mapper_ppu_read(m, p.v),
                          !.v = add_vram_increment(p)],
        value |-> p.ppudata_read_buffer]

oam_dma(p, data) == [p EXCEPT !.oam = wrapping_load(p.oam, OAM_SIZE, p.oam_addr, data)]

(***************************************************************************)
(* state.rs: NesState, the bus arbiter.                                    *)
(***************************************************************************)
get_cpu_effective_address(addr) ==
  IF addr <= 8191 THEN BitAnd(addr, 2047)
  ELSE IF addr <= 16383 THEN BitAnd(addr, 8199)
  ELSE addr

handle_controller_strobe(n, value_written) ==
  IF bit_is_set(0, value_written)
  THEN [n EXCEPT !.reload_controller_state = TRUE]
  ELSE [n EXCEPT !.reload_controller_state = FALSE,
                 !.controller1_register = n.controller1_state,
                 !.controller1_read_count = 0,
                 !.controller2_register = n.controller2_state,
                 !.controller2_read_count = 0]

\* the new NesState and the byte returned
\* a port whose shift register does not shift: every read returns button A
read_controller1_no_shift(n) ==
  IF n.controller1_read_count + 1 > 8
  THEN [nes |-> [n EXCEPT !.controller1_read_count = n.controller1_read_count + 1], value |-> 65]
  ELSE [nes |-> [n EXCEPT !.controller1_read_count = n.controller1_read_count + 1],
        value |-> BitOr(64, BitAnd(n.controller1_register, 1))]

read_controller1(n) ==
  IF n.controller1_read_count + 1 > 8
  THEN [nes |-> [n EXCEPT !.controller1_read_count = n.controller1_read_count + 1], value |-> 65]
  ELSE [nes |-> [n EXCEPT !.controller1_read_count = n.controller1_read_count + 1,
                          !.controller1_register = Shr(n.controller1_register, 1)],
        value |-> BitOr(64, BitAnd(n.controller1_register, 1))]

read_controller2(n) ==
  IF n.controller2_read_count + 1 > 8
  THEN [nes |-> [n EXCEPT !.controller2_read_count = n.controller2_read_count + 1], value |-> 65]
  ELSE [nes |-> [n EXCEPT !.controller2_read_count = n.controller2_read_count + 1,
                          !.controller2_register = Shr(n.controller2_register, 1)],
        value |-> BitOr(64, BitAnd(n.controller2_register, 1))]

\* The machine a bus call works on: the PPU, the mapper and the arbiter's own fields.
Machine(p, m, n) == [ppu |-> p, mapper |-> m, nes |-> n]

\* NesState::cpu_mem_read: the new machine and the byte returned
cpu_mem_read(s, a) ==
  LET addr == get_cpu_effective_address(a)
      from_ppu(r) == [state |-> [s EXCEPT !.ppu = r.ppu], value |-> r.value]
      from_controller(r) == [state |-> [s EXCEPT !.nes = r.nes], value |-> r.value]
  IN CASE addr = 8194 -> from_ppu(read_2002_ppustatus(s.ppu))
       [] addr = 8196 -> [state |-> s, value |-> read_2004_oamdata(s.ppu)]
       [] addr = 8199 -> from_ppu(read_2007_ppudata(s.ppu, s.mapper))
       [] addr = 16406 -> from_controller(read_controller1(s.nes))
       [] addr = 16407 -> from_controller(read_controller2(s.nes))
       [] OTHER -> [state |-> s, value |-> Mapper_cpu_read(s.mapper, addr)]

cpu_mem_read_word(s, a) ==
  LET addr == get_cpu_effective_address(a)
  IN Mapper_cpu_read(s.mapper, addr + 1) * 256 + Mapper_cpu_read(s.mapper, addr)

PPU_READY_CYCLE == 29658

\* NesState::cpu_mem_write: the new machine
cpu_mem_write(s, a, value, cycle_count) ==
  LET addr == get_cpu_effective_address(a)
      ppu_ready == cycle_count > PPU_READY_CYCLE
  IN CASE addr = 8192 -> IF ppu_ready THEN [s EXCEPT !.ppu = write_2000_ppuctrl(s.ppu, value)] ELSE s
       [] addr = 8193 -> IF ppu_ready THEN [s EXCEPT !.ppu = write_2001_ppumask(s.ppu, value)] ELSE s
       [] addr = 8195 -> [s EXCEPT !.ppu = write_2003_oamaddr(s.ppu, value)]
       [] addr = 8196 -> [s EXCEPT !.ppu = write_2004_oamdata(s.ppu, value)]
       [] addr = 8197 -> IF ppu_ready THEN [s EXCEPT !.ppu = write_2005_ppuscroll(s.ppu, value)] ELSE s
       [] addr = 8198 -> IF ppu_ready THEN [s EXCEPT !.ppu = write_2006_ppuaddr(s.ppu, value)] ELSE s
       [] addr = 8199 ->
            LET written(r) == [s EXCEPT !.ppu = r.ppu, !.mapper = r.mapper]
            IN written(write_2007_ppudata(s.ppu, s.mapper, value))
       [] addr = 16404 ->
            LET dma_start == value * 256
            IN [s EXCEPT !.ppu = oam_dma(s.ppu, get_cpu_dma_slice(s.mapper, dma_start))]
       [] addr = 16406 -> [s EXCEPT !.nes = handle_controller_strobe(s.nes, value)]
       [] OTHER -> [s EXCEPT !.mapper = Mapper_cpu_write(s.mapper, addr, value)]

(***************************************************************************)
(* ppu.rs: Ppu::cycle, one dot, with the two pixel pipelines: the tile     *)
(* latches and the four shift registers of the background, secondary OAM   *)
(* and the eight sprite buffers.  Next to the fields of the source the Ppu *)
(* record carries three marks of a fault: out_of_sync (the panic of        *)
(* update_bg_shift_registers), panicked (the todo!() of the 8x16 sprite    *)
(* fill) and overflowed, the set of functions in which an unsigned         *)
(* subtraction or a shift amount left its range.  A build with overflow    *)
(* checks panics there; the values kept are those of a build without them, *)
(* where the operation wraps.                                              *)
(***************************************************************************)
\* a fetch cycle of seven states: the address step of the upper bit plane is left out
PpuBgFetchState_next_short(f) ==
  CASE f = "Idle" -> "Idle"
    [] f = "NametableAddr" -> "NametableRead"
    [] f = "NametableRead" -> "AttrtableAddr"
    [] f = "AttrtableAddr" -> "AttrtableRead"
    [] f = "AttrtableRead" -> "BackgroundLSBAddr"
    [] f = "BackgroundLSBAddr" -> "BackgroundLSBRead"
    [] f = "BackgroundLSBRead" -> "BackgroundMSBRead"
    [] f = "BackgroundMSBAddr" -> "BackgroundMSBRead"
    [] f = "BackgroundMSBRead" -> "NametableAddr"

PpuBgFetchState_next(f) ==
  CASE f = "Idle" -> "Idle"
    [] f = "NametableAddr" -> "NametableRead"
    [] f = "NametableRead" -> "AttrtableAddr"
    [] f = "AttrtableAddr" -> "AttrtableRead"
    [] f = "AttrtableRead" -> "BackgroundLSBAddr"
    [] f = "BackgroundLSBAddr" -> "BackgroundLSBRead"
    [] f = "BackgroundLSBRead" -> "BackgroundMSBAddr"
    [] f = "BackgroundMSBAddr" -> "BackgroundMSBRead"
    [] f = "BackgroundMSBRead" -> "NametableAddr"

set_next_cycle(p) ==
  IF p.scanline_cycle + 1 > 340
  THEN IF p.scanline + 1 > 261
       THEN [p EXCEPT !.scanline = 0,
                      !.frame = p.frame + 1,
                      !.scanline_cycle = IF (p.frame + 1) % 2 = 1 /\ rendering_enabled(p)
                                         THEN 1 ELSE 0]
       ELSE [p EXCEPT !.scanline = p.scanline + 1, !.scanline_cycle = 0]
  ELSE [p EXCEPT !.scanline_cycle = p.scanline_cycle + 1]

\* SpriteBuffer::get_palette_value: the value, and whether a u8 subtraction or the
\* shift amount of bit_is_set left its range
get_palette_value(sprite, screen_x) ==
  LET first == IF sprite.flip_horizontally THEN screen_x ELSE 7 - screen_x
      bit == ((first + 256) % 256) - sprite.x_position
      wrapped == (bit + 256) % 256
      set(byte) == IF bit_is_set(wrapped % 8, byte) THEN 1 ELSE 0
  IN [palette_value |-> BitOr(2 * set(sprite.pattern_tile_msb), set(sprite.pattern_tile_lsb)),
      overflowed |-> first < 0 \/ bit < 0 \/ wrapped > 7]

\* SpriteBuffer::is_renderable is called by render_pixel and is not in sprite.rs; the
\* specification scans all eight sprite buffers
is_renderable(sprite) == TRUE

\* SpriteBuffer::set_pattern_lsb_msb on a buffer whose flags are loaded: the buffer,
\* whether a u16 subtraction left its range, and whether todo!() was met
set_pattern_lsb_msb(sprite, sprite_size, scanline, y, pattern_table_addr_8x8, tile, m) ==
  IF sprite_size = "Sprite8x8"
  THEN LET row == scanline - y
           intra_tile_y == IF sprite.flip_vertically THEN 7 - ((row + 65536) % 65536) ELSE row
           read(tile_addr) ==
             [sprite EXCEPT !.pattern_tile_lsb = Mapper_ppu_read(m, tile_addr),
                            !.pattern_tile_msb = Mapper_ppu_read(m, BitOr(tile_addr, 8))]
       IN [sprite |-> read(BitOr(BitOr(pattern_table_addr_8x8, Shl16(tile, 4)),
                                 (intra_tile_y + 65536) % 65536)),
           overflowed |-> row < 0 \/ intra_tile_y < 0,
           panicked |-> FALSE]
  ELSE [sprite |-> sprite, overflowed |-> FALSE, panicked |-> TRUE]

\* SpriteBuffer::load
SpriteBuffer_load(sprite, y, tile, attributes, x, is_sprite_0, pattern_table_addr_8x8, sprite_size, scanline, m) ==
  set_pattern_lsb_msb([sprite EXCEPT !.x_position = x,
                                     !.y_position = y,
                                     !.palette = attributes % 4,
                                     !.priority = IF bit_is_set(5, attributes)
                                                  THEN "BehindBackground"
                                                  ELSE "InFrontOfBackground",
                                     !.is_sprite_0 = is_sprite_0,
                                     !.flip_horizontally = bit_is_set(6, attributes),
                                     !.flip_vertically = bit_is_set(7, attributes)],
                      sprite_size, scanline, y, pattern_table_addr_8x8, tile, m)

\* Ppu::do_sprite_evaluation: the reset and the clearing of secondary OAM on dots
\* 1-8, one primary OAM entry on every third dot of 65-256, one sprite buffer on every
\* eighth dot of 257-320
do_sprite_evaluation(p, m) ==
  LET reset(q) == [q EXCEPT !.sprite_oam_addr = 0, !.secondary_oam_index = 0,
                            !.maybe_sprite_0_hit = FALSE, !.sprite_overflow = FALSE]
      cleared(q) == [q EXCEPT !.secondary_oam[p.scanline_cycle - 1] = <<255, 255, 255, 255>>]
      entry(a) == <<Memory_read(p.oam, a), Memory_read(p.oam, a + 1),
                    Memory_read(p.oam, a + 2), Memory_read(p.oam, a + 3)>>
      copied == [p EXCEPT !.maybe_sprite_0_hit = @ \/ p.sprite_oam_addr = 0,
                          !.secondary_oam[p.secondary_oam_index] = entry(p.sprite_oam_addr),
                          !.secondary_oam_index = @ + 1]
      overflowed == [p EXCEPT !.sprite_overflow = TRUE, !.ppu_status = set_bit(5, @)]
      next_entry(q) == [q EXCEPT !.sprite_oam_addr = @ + 4]
      sprite_pt_addr_8x8 == IF bit_is_set(3, p.ppu_ctrl) THEN 4096 ELSE 0
      loaded(n, r) ==
        [p EXCEPT !.sprite_buffers[n] = r.sprite,
                  !.overflowed = IF r.overflowed THEN @ \cup {"set_pattern_lsb_msb"} ELSE @,
                  !.panicked = @ \/ r.panicked]
      load(n, e) ==
        loaded(n, SpriteBuffer_load(p.sprite_buffers[n], e[1], e[2], e[3], e[4],
                                    p.maybe_sprite_0_hit /\ n = 0, sprite_pt_addr_8x8,
                                    get_sprite_size(p), p.scanline, m))
  IN IF p.scanline > 239 THEN p
     ELSE IF p.scanline_cycle >= 1 /\ p.scanline_cycle <= 8
     THEN cleared(IF p.scanline_cycle = 1 THEN reset(p) ELSE p)
     ELSE IF p.scanline_cycle >= 65 /\ p.scanline_cycle <= 256 /\ p.scanline_cycle % 3 = 0
     THEN LET sprite_min_y == Memory_read(p.oam, p.sprite_oam_addr)
              sprite_max_y == sprite_min_y + (IF get_sprite_size(p) = "Sprite8x8" THEN 7 ELSE 15)
          IN next_entry(IF p.scanline >= sprite_min_y /\ p.scanline <= sprite_max_y
                        THEN IF p.secondary_oam_index < 8 THEN copied ELSE overflowed
                        ELSE p)
     ELSE IF p.scanline_cycle >= 257 /\ p.scanline_cycle <= 320 /\ p.scanline_cycle % 8 = 0
     THEN load((p.scanline_cycle \div 8) - 33, p.secondary_oam[(p.scanline_cycle \div 8) - 33])
     ELSE p

\* Ppu::do_bg_fetches: the step of the fetch state
do_bg_fetches(p, m) ==
  LET f == p.fetch_state
      v == p.v
      fine_y == Shr(BitAnd(v, 28672), 12)
      bg_pt_addr == IF bit_is_set(4, p.ppu_ctrl) THEN 4096 ELSE 0
  IN CASE f = "Idle" -> p
       [] f = "NametableAddr" -> [p EXCEPT !.tile_addr = BitOr(8192, BitAnd(v, 4095))]
       [] f = "NametableRead" -> [p EXCEPT !.tile_value = Mapper_ppu_read(m, p.tile_addr)]
       [] f = "AttrtableAddr" ->
            [p EXCEPT !.attribute_addr =
                        BitOr(BitOr(BitOr(9152, BitAnd(v, 3072)), BitAnd(Shr(v, 4), 56)),
                              BitAnd(Shr(v, 2), 7))]
       [] f = "AttrtableRead" ->
            [p EXCEPT !.attribute_data = Mapper_ppu_read(m, p.attribute_addr)]
       [] f = "BackgroundLSBAddr" ->
            [p EXCEPT !.bg_lsb_addr = BitOr(BitOr(bg_pt_addr, Shl16(p.tile_value, 4)), fine_y)]
       [] f = "BackgroundLSBRead" -> [p EXCEPT !.bg_lsb = Mapper_ppu_read(m, p.bg_lsb_addr)]
       [] f = "BackgroundMSBAddr" ->
            [p EXCEPT !.bg_msb_addr =
                        BitOr(BitOr(bg_pt_addr, Shl16(p.tile_value, 4)), BitOr(8, fine_y))]
       [] f = "BackgroundMSBRead" -> [p EXCEPT !.bg_msb = Mapper_ppu_read(m, p.bg_msb_addr)]

\* Ppu::shift_bg_shift_registers: ShiftRegister16Bit::shift on the four registers
shift_bg_shift_registers(p) ==
  [p EXCEPT !.pattern_tile_lsb_register = Shl16(@, 1),
            !.pattern_tile_msb_register = Shl16(@, 1),
            !.attribute_lsb_shift_register = Shl16(@, 1),
            !.attribute_msb_shift_register = Shl16(@, 1)]

\* Ppu::update_bg_shift_registers: push_byte of the latches into the low bytes, the
\* attribute bits of the quadrant spread over a byte; out of step with the fetch state
\* it panics
update_bg_shift_registers(p) ==
  IF p.fetch_state = "BackgroundMSBRead"
  THEN LET push_byte(contents, byte) == set_bits_from_mask_u16(byte, 255, contents)
           quadrant_selector == (IF bit_is_set(6, p.v) THEN 2 ELSE 0)
                                  + (IF bit_is_set(1, p.v) THEN 1 ELSE 0)
           fill(bit) == IF bit_is_set(bit, p.attribute_data) THEN 255 ELSE 0
       IN [p EXCEPT !.pattern_tile_lsb_register = push_byte(@, p.bg_lsb),
                    !.pattern_tile_msb_register = push_byte(@, p.bg_msb),
                    !.attribute_msb_shift_register = push_byte(@, fill(2 * quadrant_selector + 1)),
                    !.attribute_lsb_shift_register = push_byte(@, fill(2 * quadrant_selector))]
  ELSE [p EXCEPT !.out_of_sync = TRUE]

update_coarse_x(p) ==
  IF render_bg(p)
  THEN IF p.v % 32 = 31
       THEN LET v1 == p.v - 31
            IN [p EXCEPT !.v = IF bit_is_set(10, v1) THEN v1 - 1024 ELSE v1 + 1024]
       ELSE [p EXCEPT !.v = p.v + 1]
  ELSE p

update_fine_y(p) ==
  IF render_bg(p)
  THEN IF BitAnd(p.v, 28672) # 28672
       THEN [p EXCEPT !.v = p.v + 4096]
       ELSE LET wrap(v1, y) ==
                  LET v2 == IF y = 29 THEN (IF bit_is_set(11, v1) THEN v1 - 2048 ELSE v1 + 2048)
                            ELSE v1
                      y1 == IF y = 29 \/ y = 31 THEN 0 ELSE y + 1
                  IN [p EXCEPT !.v = BitOr(BitAnd(v2, Not16(992)), y1 * 32)]
                coarse_y(v1) == wrap(v1, Shr(BitAnd(v1, 992), 5))
            IN coarse_y(BitAnd(p.v, Not16(28672)))
  ELSE p

reset_horizontal_position_in_v(p) ==
  IF render_bg(p) THEN [p EXCEPT !.v = set_bits_from_mask_u16(p.t, 1055, p.v)] ELSE p

reset_vertical_position_in_v(p) ==
  IF render_bg(p) THEN [p EXCEPT !.v = set_bits_from_mask_u16(p.t, 31712, p.v)] ELSE p

\* the dots 1..256 and 321..336 share this tail: shift, fetch, reload every 8th dot,
\* advance
fetch_and_advance(p, m) ==
  LET next(q) == [q EXCEPT !.fetch_state = PpuBgFetchState_next(q.fetch_state)]
      reload(q) == IF q.scanline_cycle % 8 = 0
                   THEN update_coarse_x(update_bg_shift_registers(q))
                   ELSE q
  IN next(reload(do_bg_fetches(shift_bg_shift_registers(p), m)))

\* Ppu::get_bg_color_index: the BackgroundPixel under fine X
get_bg_color_index(p, m) ==
  LET get_upper_byte(contents) == Shr(contents, 8)
      fine_x_bit == Shr(128, p.x)
      bit_of(byte) == Shr(BitAnd(byte, fine_x_bit), 7 - p.x)
      pixel(bg_lsb_bit, bg_msb_bit, at_lsb_bit, at_msb_bit) ==
        [palette_value |-> BitOr(bg_lsb_bit, 2 * bg_msb_bit),
         color_index |->
           Mapper_ppu_read(m, IF bg_lsb_bit = 0 /\ bg_msb_bit = 0
                              THEN 16128
                              ELSE 16128 + BitOr(BitOr(bg_lsb_bit, 2 * bg_msb_bit),
                                                 BitOr(4 * at_lsb_bit, 8 * at_msb_bit)))]
  IN pixel(bit_of(get_upper_byte(p.pattern_tile_lsb_register)),
           bit_of(get_upper_byte(p.pattern_tile_msb_register)),
           bit_of(get_upper_byte(p.attribute_lsb_shift_register)),
           bit_of(get_upper_byte(p.attribute_msb_shift_register)))

\* Ppu::render_pixel: the new Ppu and the colour.  An Option is the sequence of at
\* most one element; a SpritePixel also tells whether its palette value overflowed.
render_pixel(p, m) ==
  LET screen_x == p.scanline_cycle - 1
      covers(n) == /\ is_renderable(p.sprite_buffers[n])
                   /\ screen_x - p.sprite_buffers[n].x_position >= 0
                   /\ screen_x - p.sprite_buffers[n].x_position <= 7
      SpritePixel(sprite, value) ==
        [palette_value |-> value.palette_value,
         color_index |-> Mapper_ppu_read(m, 16144 + BitOr(4 * sprite.palette, value.palette_value)),
         priority |-> sprite.priority,
         sprite_0 |-> sprite.is_sprite_0,
         overflowed |-> value.overflowed]
      push(n) == SpritePixel(p.sprite_buffers[n], get_palette_value(p.sprite_buffers[n], screen_x))
      pushed(buffers) == [i \in DOMAIN buffers |-> push(buffers[i])]
      RECURSIVE popped(_, _)
      popped(sprite_vec, pixel_to_render) ==
        IF sprite_vec = <<>> THEN pixel_to_render
        ELSE popped(SubSeq(sprite_vec, 1, Len(sprite_vec) - 1),
                    IF sprite_vec[Len(sprite_vec)].palette_value > 0
                    THEN sprite_vec[Len(sprite_vec)]
                    ELSE pixel_to_render)
      chosen(sprite_vec) ==
        IF sprite_vec = <<>> THEN <<>>
        ELSE <<popped(SubSeq(sprite_vec, 1, Len(sprite_vec) - 1), sprite_vec[Len(sprite_vec)])>>
      both(bgpixel, spixel) ==
        [hit |-> spixel.sprite_0 /\ bgpixel.palette_value > 0 /\ spixel.palette_value > 0,
         color |-> IF spixel.priority = "InFrontOfBackground"
                   THEN IF spixel.palette_value > 0 THEN spixel.color_index
                        ELSE bgpixel.color_index
                   ELSE IF bgpixel.palette_value > 0 THEN bgpixel.color_index
                   ELSE IF spixel.palette_value > 0 THEN spixel.color_index
                   ELSE bgpixel.color_index]
      match(bg_pixel, sprite_pixel) ==
        IF bg_pixel = <<>>
        THEN [hit |-> FALSE,
              color |-> IF sprite_pixel = <<>> THEN Mapper_ppu_read(m, 16128)
                        ELSE sprite_pixel[1].color_index]
        ELSE IF sprite_pixel = <<>>
        THEN [hit |-> FALSE, color |-> bg_pixel[1].color_index]
        ELSE both(bg_pixel[1], sprite_pixel[1])
      rendered(sprite_vec, r) ==
        [ppu |-> [p EXCEPT !.ppu_status = IF r.hit THEN set_bit(6, @) ELSE @,
                           !.overflowed = IF \E i \in DOMAIN sprite_vec : sprite_vec[i].overflowed
                                          THEN @ \cup {"get_palette_value"} ELSE @],
         color |-> r.color]
      muxed(sprite_vec) ==
        rendered(sprite_vec,
                 match(IF render_bg(p) THEN <<get_bg_color_index(p, m)>> ELSE <<>>,
                       chosen(sprite_vec)))
  IN muxed(IF render_sprites(p)
           THEN pushed(SelectSeq(<<0, 1, 2, 3, 4, 5, 6, 7>>, covers))
           ELSE <<>>)

PpuCycleResult(kind, scanline, x, scanline_cycle, trigger_nmi) ==
  [kind |-> kind, scanline |-> scanline, x |-> x,
   scanline_cycle |-> scanline_cycle, trigger_nmi |-> trigger_nmi]

\* the match on scanline and scanline_cycle of Ppu::cycle: the new Ppu and the result;
\* the result of a visible dot carries the colour of the pixel
cycle_match(p, m) ==
  LET c == p.scanline_cycle
      s == p.scanline
      with_fetch(f) == IF c = 1 \/ c = 321 THEN [p EXCEPT !.fetch_state = f] ELSE p
      started(f) == do_bg_fetches([p EXCEPT !.fetch_state = f], m)
      pixel(r) ==
        [ppu |-> IF c = 256
                 THEN update_fine_y(fetch_and_advance(r.ppu, m))
                 ELSE fetch_and_advance(r.ppu, m),
         result |-> [kind |-> "Pixel", scanline |-> s, x |-> c - 1, scanline_cycle |-> c,
                     trigger_nmi |-> FALSE, color |-> r.color]]
  IN IF s <= 239
     THEN IF c = 0
          THEN [ppu |-> started("BackgroundLSBAddr"),
                result |-> PpuCycleResult("Idle", s, 0, c, FALSE)]
          ELSE IF c <= 256
          THEN pixel(render_pixel(with_fetch("NametableAddr"), m))
          ELSE IF c = 257
          THEN [ppu |-> [reset_horizontal_position_in_v(p) EXCEPT !.fetch_state = "Idle"],
                result |-> PpuCycleResult("HBlank", s, 0, c, FALSE)]
          ELSE IF c <= 320
          THEN [ppu |-> [p EXCEPT !.fetch_state = "Idle"],
                result |-> PpuCycleResult("HBlank", s, 0, c, FALSE)]
          ELSE IF c <= 336
          THEN [ppu |-> fetch_and_advance(with_fetch("NametableAddr"), m),
                result |-> PpuCycleResult("HBlank", s, 0, c, FALSE)]
          ELSE IF c = 337 \/ c = 339
          THEN [ppu |-> [started("NametableAddr") EXCEPT !.fetch_state = "NametableRead"],
                result |-> PpuCycleResult("HBlank", s, 0, c, FALSE)]
          ELSE [ppu |-> do_bg_fetches(p, m),
                result |-> PpuCycleResult("HBlank", s, 0, c, FALSE)]
     ELSE IF s = 240
     THEN [ppu |-> p, result |-> PpuCycleResult("PostRenderLine", s, 0, c, FALSE)]
     ELSE IF s = 241
     THEN IF c = 1
          THEN [ppu |-> set_vblank_flag(p),
                result |-> PpuCycleResult("VBlankLine", s, 0, c, get_nmi_generate(p))]
          ELSE [ppu |-> p, result |-> PpuCycleResult("VBlankLine", s, 0, c, FALSE)]
     ELSE IF s <= 260
     THEN [ppu |-> p, result |-> PpuCycleResult("VBlankLine", s, 0, c, FALSE)]
     ELSE [ppu |-> IF c = 1
                   THEN clear_ppu_status_flags([p EXCEPT !.fetch_state = "NametableAddr"])
                   ELSE IF c = 257 THEN reset_horizontal_position_in_v(p)
                   ELSE IF c >= 280 /\ c <= 304 THEN reset_vertical_position_in_v(p)
                   ELSE IF c >= 321 /\ c <= 336 THEN fetch_and_advance(with_fetch("NametableAddr"), m)
                   ELSE IF c = 337 \/ c = 339
                   THEN [started("NametableAddr") EXCEPT !.fetch_state = "NametableRead"]
                   ELSE IF c = 338 \/ c = 340 THEN do_bg_fetches(p, m)
                   ELSE p,
           result |-> PpuCycleResult("PreRenderLine", s, 0, c, FALSE)]

\* Ppu::cycle: the new Ppu and the PpuCycleResult
Ppu_cycle(p0, m) ==
  LET next(r) == [ppu |-> set_next_cycle(r.ppu), result |-> r.result]
  IN next(cycle_match(do_sprite_evaluation(
                        [p0 EXCEPT !.total_cycle_count = p0.total_cycle_count + 1], m), m))

Ppu_new ==
  [total_cycle_count |-> 0,
   ppu_ctrl |-> 0, ppu_mask |-> 0, ppu_status |-> 0, oam_addr |-> 0,
   v |-> 0, t |-> 0, x |-> 0, w |-> "FirstWrite",
   oam |-> <<>>,
   ppudata_read_buffer |-> 0,
   frame |-> 0, scanline |-> 261, scanline_cycle |-> 0,
   fetch_state |-> "Idle",
   tile_addr |-> 0, tile_value |-> 0, attribute_addr |-> 0, attribute_data |-> 0,
   bg_lsb_addr |-> 0, bg_lsb |-> 0, bg_msb_addr |-> 0, bg_msb |-> 0,
   pattern_tile_lsb_register |-> 0, pattern_tile_msb_register |-> 0,
   attribute_lsb_shift_register |-> 0, attribute_msb_shift_register |-> 0,
   sprite_oam_addr |-> 0, secondary_oam_index |-> 0,
   secondary_oam |-> [n \in 0 .. 7 |-> <<255, 255, 255, 255>>],
   maybe_sprite_0_hit |-> FALSE, sprite_overflow |-> FALSE,
   sprite_buffers |-> [n \in 0 .. 7 |->
                         [x_position |-> 0, y_position |-> 0, palette |-> 0,
                          priority |-> "InFrontOfBackground", is_sprite_0 |-> FALSE,
                          flip_horizontally |-> FALSE, flip_vertically |-> FALSE,
                          pattern_tile_lsb |-> 0, pattern_tile_msb |-> 0]],
   out_of_sync |-> FALSE, panicked |-> FALSE, overflowed |-> {}]

(***************************************************************************)
(* cpu.rs.  An instruction is the record of an OP_CODES entry and of the   *)
(* operand bytes that follow the opcode in the ROM.  The instructions kept *)
(* are the ones the runs explored fetch.  While an instruction executes,   *)
(* x is the record of the Cpu, the machine behind the bus, the extra       *)
(* cycles, and the bus writes made so far.                                 *)
(***************************************************************************)
Instruction(name, addr_mode, cycles, operand) ==
  [name |-> name, addr_mode |-> addr_mode, cycles |-> cycles, operand |-> operand]

NOP == Instruction("NOP", "IMP", 2, 0)
LDA_IMM(value) == Instruction("LDA", "IMM", 2, value)
LDA_ABS(addr) == Instruction("LDA", "ABS", 4, addr)
STA_ABS(addr) == Instruction("STA", "ABS", 4, addr)
JMP_ABS(addr) == Instruction("JMP", "ABS", 3, addr)
BPL_REL(offset) == Instruction("BPL", "REL", 2, offset)
RTI == Instruction("RTI", "IMP", 6, 0)

\* the bytes read_byte consumes: the opcode and the operand of the addressing mode
bytes_consumed(ins) ==
  CASE ins.addr_mode \in {"IMP", "ACC", "UNK"} -> 1
    [] ins.addr_mode \in {"IMM", "REL", "ZP", "ZPX", "ZPY", "IZX", "IZY"} -> 2
    [] ins.addr_mode \in {"ABS", "ABX", "ABY", "IND"} -> 3

do_mem_read(x, addr) == cpu_mem_read(x.state, addr)

\* a write that pays the page penalty of the addressing mode
do_mem_write_page_penalty(x, ins, addr, value) ==
  LET cycle == x.cpu.cycle_count + ins.cycles + x.extra_cycles
  IN [x EXCEPT !.state = cpu_mem_write(x.state, addr, value, cycle),
               !.extra_cycles = IF addr = 16404 THEN @ + 513 ELSE @ + x.page_penalty,
               !.writes = Append(@, [addr |-> addr, value |-> value, cycle |-> cycle])]

do_mem_write(x, ins, addr, value) ==
  LET cycle == x.cpu.cycle_count + ins.cycles + x.extra_cycles
  IN [x EXCEPT !.state = cpu_mem_write(x.state, addr, value, cycle),
               !.extra_cycles = IF addr = 16404 THEN @ + 513 ELSE @,
               !.writes = Append(@, [addr |-> addr, value |-> value, cycle |-> cycle])]

update_processor_status_nz_flags(P, input) ==
  LET n == set_bit_from(7, input, P)
  IN IF input = 0 THEN set_bit(1, n) ELSE clear_bit(1, n)

\* a destination that adds the offset without extending its sign
get_branch_destination_unsigned(c, operand_value) == (c.PC + operand_value) % 65536

\* self.reg.PC.wrapping_add(relative_offset as u16), the offset being an i8
get_branch_destination(c, operand_value) ==
  (c.PC + (IF operand_value >= 128 THEN operand_value + 65280 ELSE operand_value)) % 65536

branch_if_clear(x, flag_bit, operand_value) ==
  IF ~bit_is_set(flag_bit, x.cpu.P)
  THEN LET dest == get_branch_destination(x.cpu, operand_value)
       IN [x EXCEPT !.extra_cycles = @ + 1 + (IF same_page(dest, x.cpu.PC) THEN 0 ELSE 1),
                    !.cpu.PC = dest]
  ELSE x

stack_push(x, ins, value) ==
  [do_mem_write(x, ins, 256 + x.cpu.SP, value) EXCEPT !.cpu.SP = (x.cpu.SP + 255) % 256]

\* the new x and the byte pulled
stack_pull(x) ==
  LET sp == (x.cpu.SP + 1) % 256
      pulled(r) == [x |-> [x EXCEPT !.cpu.SP = sp, !.state = r.state], value |-> r.value]
  IN pulled(do_mem_read(x, 256 + sp))

\* a word pushed low byte first
stack_push_word_low_first(x, ins, value) ==
  stack_push(stack_push(x, ins, value % 256), ins, value \div 256)

stack_push_word(x, ins, value) ==
  stack_push(stack_push(x, ins, value \div 256), ins, value % 256)

stack_pull_word(x) ==
  LET word(lsb, msb) == [x |-> msb.x, value |-> msb.value * 256 + lsb.value]
      high(lsb) == word(lsb, stack_pull(lsb.x))
  IN high(stack_pull(x))

\* a pull that loads all eight bits of P
set_p_from_stack_all_bits(x) ==
  LET restored(r) == [r.x EXCEPT !.cpu.P = r.value]
  IN restored(stack_pull(x))

set_p_from_stack(x) ==
  LET from(sv, P) == set_bit_from(7, sv, set_bit_from(6, sv, set_bit_from(3, sv,
                       set_bit_from(2, sv, set_bit_from(1, sv, set_bit_from(0, sv, P))))))
      restored(r) == [r.x EXCEPT !.cpu.P = from(r.value, r.x.cpu.P)]
  IN restored(stack_pull(x))

lda(x, ins) ==
  LET loaded(r) == [x EXCEPT !.state = r.state,
                             !.cpu.A = r.value,
                             !.cpu.P = update_processor_status_nz_flags(x.cpu.P, r.value)]
  IN loaded(IF ins.addr_mode = "IMM" THEN [state |-> x.state, value |-> ins.operand]
            ELSE do_mem_read(x, ins.operand))

sta(x, ins) == do_mem_write(x, ins, ins.operand, x.cpu.A)

jmp(x, ins) == [x EXCEPT !.cpu.PC = ins.operand]

bpl(x, ins) == branch_if_clear(x, 7, ins.operand)

rti(x) ==
  LET returned(r) == [r.x EXCEPT !.cpu.PC = r.value]
  IN returned(stack_pull_word(set_p_from_stack(x)))

\* Cpu::execute on the instruction at PC: the new Cpu and machine, the cycles used
\* and the bus writes made
execute(c, s, ins) ==
  LET x0 == [cpu |-> [c EXCEPT !.PC = (c.PC + bytes_consumed(ins)) % 65536],
             state |-> s, extra_cycles |-> 0, writes |-> <<>>]
      executed(x1) == [cpu |-> x1.cpu, state |-> x1.state,
                       cycles |-> ins.cycles + x1.extra_cycles, writes |-> x1.writes,
                       nmi |-> FALSE]
  IN executed(CASE ins.name = "NOP" -> x0
                [] ins.name = "LDA" -> lda(x0, ins)
                [] ins.name = "STA" -> sta(x0, ins)
                [] ins.name = "JMP" -> jmp(x0, ins)
                [] ins.name = "BPL" -> bpl(x0, ins)
                [] ins.name = "RTI" -> rti(x0))

\* Cpu::set_nmi_flag, called by the scheduler; its body is not in the sources
set_nmi_flag(c) == [c EXCEPT !.nmi_flag = TRUE]

\* The NMI entry sequence, after the specification's section on the CPU: push PC
\* (high, low), push P with bit 4 = 0 and bit 5 = 1, set I, load PC from $FFFA,
\* clear the latch, 7 cycles.
service_nmi(c, s) ==
  LET entry == Instruction("NMI", "IMP", 7, 0)
      x0 == [cpu |-> c, state |-> s, extra_cycles |-> 0, writes |-> <<>>]
      entered(x2) == [cpu |-> [x2.cpu EXCEPT !.P = set_bit(2, c.P),
                                             !.PC = cpu_mem_read_word(x2.state, 65530),
                                             !.nmi_flag = FALSE],
                      state |-> x2.state, cycles |-> entry.cycles, writes |-> x2.writes,
                      nmi |-> TRUE]
  IN entered(stack_push(stack_push_word(x0, entry, c.PC), entry,
                        set_bit(5, clear_bit(4, c.P))))

\* One step of the CPU: a pending NMI is serviced before the next opcode is decoded.
step(c, s, ins) == IF c.nmi_flag THEN service_nmi(c, s) ELSE execute(c, s, ins)

Cpu_new(s) ==
  [A |-> 0, X |-> 0, Y |-> 0, PC |-> cpu_mem_read_word(s, 65532), SP |-> 253, P |-> 36,
   cycle_count |-> 7, nmi_flag |-> FALSE]

\* Cpu::cycle_to's `self.cycle_count += cycles_used` on the result r of a step; the
\* call's total so far and the record of its steps are carried along
advance(c, r, used, steps) ==
  [cpu |-> [r.cpu EXCEPT !.cycle_count = c.cycle_count + r.cycles],
   state |-> r.state,
   used |-> used + r.cycles,
   steps |-> Append(steps, [cycles |-> r.cycles, writes |-> r.writes, nmi |-> r.nmi,
                            before |-> c, after |-> r.cpu])]

(***************************************************************************)
(* The PRG ROM.  Its code bytes are not kept in cpu_mem: the instruction   *)
(* at PC is drawn from the set the ROM may hold there.  A ROM of class     *)
(* "any" may hold any of AnyInstruction anywhere.  The ROM of class "init" *)
(* is the usual start-up code: wait for two vertical blanks polling $2002, *)
(* write PPUCTRL and PPUMASK, idle; its NMI handler returns at once.       *)
(***************************************************************************)
RomVectors == [reset |-> 49152, nmi |-> 49408]

CtrlValues == {3, 130}
MaskValues == {8, 16}
ImmValues == {2, 128}
ReadAddrs == {5, 8194, 8196}
WriteAddrs == {5, 8193, 8195, 8196, 16404}

AnyInstruction ==
  {NOP, JMP_ABS(RomVectors.reset)}
    \cup {LDA_IMM(value) : value \in ImmValues}
    \cup {LDA_ABS(addr) : addr \in ReadAddrs}
    \cup {STA_ABS(addr) : addr \in WriteAddrs}

InitProgram(PC) ==
  CASE PC = RomVectors.reset -> {LDA_ABS(8194)}
    [] PC = RomVectors.reset + 3 -> {BPL_REL(251)}
    [] PC = RomVectors.reset + 5 -> {LDA_ABS(8194)}
    [] PC = RomVectors.reset + 8 -> {BPL_REL(251)}
    [] PC = RomVectors.reset + 10 -> {LDA_IMM(value) : value \in CtrlValues}
    [] PC = RomVectors.reset + 12 -> {STA_ABS(8192)}
    [] PC = RomVectors.reset + 15 -> {LDA_IMM(value) : value \in MaskValues}
    [] PC = RomVectors.reset + 17 -> {STA_ABS(8193)}
    [] PC = RomVectors.reset + 20 -> {JMP_ABS(RomVectors.reset + 20)}
    [] PC = RomVectors.nmi -> {RTI}
    [] OTHER -> {}

Fetch(m, c) == IF m.prg = "init" THEN InitProgram(c.PC) ELSE AnyInstruction

\* the vectors at the top of the PRG ROM, as load_rom leaves them in cpu_mem
Vectors ==
  LET vec == [a \in 65530 .. 65533 |->
                CASE a = 65530 -> RomVectors.nmi % 256
                  [] a = 65531 -> RomVectors.nmi \div 256
                  [] a = 65532 -> RomVectors.reset % 256
                  [] a = 65533 -> RomVectors.reset \div 256]
  IN [a \in {x \in DOMAIN vec : vec[x] # 0} |-> vec[a]]

Mapper_new(prg, chr_ram) ==
  [cpu_mem |-> Vectors,
   ppu_mem |-> [mem |-> <<>>, vram_bank0 |-> <<>>, vram_bank1 |-> <<>>, mirroring |-> "Horizontal"],
   chr_ram |-> chr_ram,
   prg |-> prg]

NesState_new ==
  [reload_controller_state |-> TRUE,
   controller1_state |-> 0, controller1_register |-> 0, controller1_read_count |-> 0,
   controller2_state |-> 0, controller2_register |-> 0, controller2_read_count |-> 0]

\* Cpu::cycle_to(state, cycle): `while self.cycle_count < cycle` a step runs and its
\* cycles are added; what the call can leave and return, over the instructions the
\* ROM may hold
RECURSIVE cycle_to(_, _, _, _, _)
cycle_to(c, s, cycle, used, steps) ==
  IF c.cycle_count >= cycle
  THEN {[cpu |-> c, state |-> s, used |-> used, steps |-> steps]}
  ELSE LET rest(a) == cycle_to(a.cpu, a.state, cycle, a.used, a.steps)
       IN UNION {rest(advance(c, step(c, s, ins), used, steps)) : ins \in Fetch(s.mapper, c)}

(***************************************************************************)
(* main.rs: the 'mainloop.  main.pc is "loop" at the top of an iteration   *)
(* and "done" after a break.  An iteration is one action: the call of      *)
(* cycle_to and the for loop over the PPU ticks that follows it.           *)
(***************************************************************************)
CycleBatches == {1, 3}
FrameCycleBatches == {1, 29}

Obs_new ==
  [used |-> 0,             \* what the last cycle_to returned
   steps |-> <<>>,         \* the steps of the last cycle_to: cycles, bus writes, the Cpu before and after
   latch |-> FALSE,        \* the NMI-pending latch before the last cycle_to
   before |-> Ppu_new,     \* the Ppu before the last cycle_to
   after |-> Ppu_new,      \* the Ppu after it, as the first tick of the for loop finds it
   log |-> <<>>,           \* the ticks of the last for loop: position, registers, fetch state, result
   frame_ticks |-> 0,      \* ticks issued since the position last wrapped to scanline 0
   wrapped |-> FALSE,      \* the position has wrapped to scanline 0 at least once
   frame_odd |-> FALSE,    \* at that wrap: the new frame number was odd,
   frame_rendering |-> FALSE,  \* rendering was enabled,
   frame_first_dot |-> 0,  \* and the position went to this dot of scanline 0
   frames_done |-> 0,      \* frames that began and ended at a wrap
   last_frame |-> 0,       \* the last of them: its length in ticks,
   last_odd |-> FALSE,     \* whether its number was odd
   last_rendering |-> FALSE,   \* and rendering enabled at the wrap that began it
   nmi_ticks |-> 0]        \* ticks that returned trigger_nmi = true

Gui_new == [pixels |-> 0, in_order |-> TRUE, frames |-> 0, committed |-> 0, committed_in_order |-> TRUE]

Main_new(cycle_batch, max_cycles) ==
  [pc |-> "loop", cycle |-> 7, cycle_batch |-> cycle_batch, max_cycles |-> max_cycles,
   frame_count |-> 0]

InitWith(prg, cycle_batch, max_cycles) ==
  /\ mapper = Mapper_new(prg, FALSE)
  /\ ppu = Ppu_new
  /\ nes = NesState_new
  /\ cpu = Cpu_new(Machine(ppu, mapper, nes))
  /\ main = Main_new(cycle_batch, max_cycles)
  /\ gui = Gui_new
  /\ obs = Obs_new
  /\ bus = <<>>

Init == \E cycle_batch \in CycleBatches : InitWith("any", cycle_batch, MaxCycles)

InitFrames == \E cycle_batch \in FrameCycleBatches : InitWith("init", cycle_batch, MaxFrameCycles)

max_cycles_reached == main.max_cycles > 0 /\ main.cycle + main.cycle_batch > main.max_cycles

\* `cycle += cycle_batch` and the break on max_cycles
MainLoopBreak ==
  /\ main.pc = "loop"
  /\ max_cycles_reached
  /\ main' = [main EXCEPT !.pc = "done", !.cycle = main.cycle + main.cycle_batch]
  /\ UNCHANGED <<cpu, ppu, mapper, nes, gui, obs, bus>>

\* gui.rs: set_pixel and render_frame, seen as a sink: the pixels received since the
\* last render_frame, whether they came in raster order, and what a render_frame commits
set_pixel(g, x, y) ==
  [g EXCEPT !.pixels = @ + 1, !.in_order = @ /\ (y * 256 + x = g.pixels)]

render_frame(g) ==
  [g EXCEPT !.frames = @ + 1, !.committed = g.pixels, !.committed_in_order = g.in_order,
            !.pixels = 0, !.in_order = TRUE]

\* a scheduler that ignores trigger_nmi
vblank_line_arm_ignored(c, result) == c

\* the VBlankLine arm of the match on the tick's result
vblank_line_arm(c, result) ==
  IF result.kind = "VBlankLine" /\ result.trigger_nmi THEN set_nmi_flag(c) ELSE c

\* a scheduler that renders the frame at every dot of the pre-render line
gui_arm_every_dot(g, result) ==
  IF result.kind = "Pixel" THEN set_pixel(g, result.x, result.scanline)
  ELSE IF result.kind = "PreRenderLine" THEN render_frame(g)
  ELSE g

\* the Pixel arm and the gui's part of the PreRenderLine arm
gui_arm(g, result) ==
  IF result.kind = "Pixel" THEN set_pixel(g, result.x, result.scanline)
  ELSE IF result.kind = "PreRenderLine" /\ result.scanline_cycle = 2 THEN render_frame(g)
  ELSE g

\* the tick at which the PreRenderLine arm renders the frame, polls the events and sleeps
sleep_point(result) == result.kind = "PreRenderLine" /\ result.scanline_cycle = 2

\* what an observer of the ticks records: p is the Ppu before the tick, r the tick's outcome
observe_tick(o, p, r) ==
  LET wraps == r.ppu.frame # p.frame
      base == [o EXCEPT !.log = Append(@, [scanline |-> p.scanline,
                                           scanline_cycle |-> p.scanline_cycle,
                                           total |-> p.total_cycle_count,
                                           status |-> p.ppu_status,
                                           status_after |-> r.ppu.ppu_status,
                                           ctrl |-> p.ppu_ctrl,
                                           mask |-> p.ppu_mask,
                                           fetch_state |-> p.fetch_state,
                                           v_after |-> r.ppu.v,
                                           t_after |-> r.ppu.t,
                                           result |-> r.result]),
                        !.nmi_ticks = IF r.result.trigger_nmi THEN @ + 1 ELSE @]
  IN IF wraps
     THEN [base EXCEPT !.frame_ticks = 0,
                       !.wrapped = TRUE,
                       !.frame_odd = r.ppu.frame % 2 = 1,
                       !.frame_rendering = bit_is_set(3, p.ppu_mask) \/ bit_is_set(4, p.ppu_mask),
                       !.frame_first_dot = r.ppu.scanline_cycle,
                       !.frames_done = IF o.wrapped THEN @ + 1 ELSE @,
                       !.last_frame = IF o.wrapped THEN o.frame_ticks + 1 ELSE @,
                       !.last_odd = o.frame_odd,
                       !.last_rendering = o.frame_rendering]
     ELSE [base EXCEPT !.frame_ticks = @ + 1]

\* one pass of `for _ in 0..cpu_cyles_used*3`: a tick and the match on its result;
\* a.running is false once `break 'mainloop` was taken
for_pass(a, process_events) ==
  LET match(r) ==
        [ppu |-> r.ppu,
         mapper |-> a.mapper,
         cpu |-> vblank_line_arm(a.cpu, r.result),
         gui |-> gui_arm(a.gui, r.result),
         frame_count |-> IF sleep_point(r.result) THEN a.frame_count + 1 ELSE a.frame_count,
         obs |-> observe_tick(a.obs, a.ppu, r),
         running |-> ~(sleep_point(r.result) /\ ~process_events)]
  IN match(Ppu_cycle(a.ppu, a.mapper))

\* n passes of the for loop, none after a break
RECURSIVE for_loop(_, _, _)
for_loop(a, n, process_events) ==
  IF n = 0 THEN a
  ELSE IF n = 1 THEN for_pass(a, process_events)
  ELSE LET half == for_loop(a, n \div 2, process_events)
       IN IF half.running THEN for_loop(half, n - (n \div 2), process_events) ELSE half

\* a scheduler that ticks the PPU twice per CPU cycle
ticks_for_two(cpu_cyles_used) == cpu_cyles_used * 2

\* the bound of `for _ in 0..cpu_cyles_used*3`
ticks_for(cpu_cyles_used) == cpu_cyles_used * 3

\* the for loop after cycle_to left r: what it can leave, over what gui.process_events
\* returns at the sleep point (false when the window was closed)
for_loop_outcomes(start, n) ==
  LET slept(run) == \E i \in DOMAIN run.obs.log : sleep_point(run.obs.log[i].result)
      outcomes(run, closed) == IF slept(run) THEN {run, closed} ELSE {run}
  IN outcomes(for_loop(start, n, TRUE), for_loop(start, n, FALSE))

\* One iteration of 'mainloop that does not break on max_cycles: `cycle += cycle_batch`,
\* cpu.cycle_to(&mut state, cycle), then the for loop.
MainLoop ==
  /\ main.pc = "loop"
  /\ ~max_cycles_reached
  /\ \E r \in cycle_to(cpu, Machine(ppu, mapper, nes), main.cycle + main.cycle_batch, 0, <<>>) :
       \E a \in for_loop_outcomes([ppu |-> r.state.ppu, mapper |-> r.state.mapper,
                                   cpu |-> r.cpu, gui |-> gui,
                                   frame_count |-> main.frame_count,
                                   obs |-> [obs EXCEPT !.used = r.used, !.steps = r.steps,
                                                       !.latch = cpu.nmi_flag,
                                                       !.before = ppu, !.after = r.state.ppu,
                                                       !.log = <<>>],
                                   running |-> TRUE],
                                  ticks_for(r.used)) :
         /\ cpu' = a.cpu
         /\ ppu' = a.ppu
         /\ mapper' = r.state.mapper
         /\ nes' = r.state.nes
         /\ gui' = a.gui
         /\ main' = [main EXCEPT !.cycle = main.cycle + main.cycle_batch,
                                 !.frame_count = a.frame_count,
                                 !.pc = IF a.running THEN "loop" ELSE "done"]
         /\ obs' = a.obs
         /\ UNCHANGED bus

Next == MainLoopBreak \/ MainLoop

Spec == Init /\ [][Next]_vars

SpecFrames == InitFrames /\ [][Next]_vars

(***************************************************************************)
(* SpecPorts: the bus arbiter alone.  The PPU's registers start from any   *)
(* of a set of register files, the pattern, nametable and palette memory   *)
(* hold a fixed image, and the CPU executes loads and stores of the bus    *)
(* addresses in any order.                                                 *)
(***************************************************************************)
StatusFiles == {[ppu_status |-> 0, w |-> "FirstWrite"],
                [ppu_status |-> 128, w |-> "SecondWrite"],
                [ppu_status |-> 224, w |-> "SecondWrite"],
                [ppu_status |-> 96, w |-> "FirstWrite"]}

AddressFiles == {[v |-> 0, t |-> 0],
                 [v |-> 32767, t |-> 32767],
                 [v |-> 16127, t |-> 16384],
                 [v |-> 16128, t |-> 32767]}

ControlFiles == {[ppu_ctrl |-> 0, oam_addr |-> 0], [ppu_ctrl |-> 4, oam_addr |-> 250]}

\* the bytes of PPU memory that are not zero: pattern memory, the unmirrored range
\* $3000-$3EFF and the palette in mem, the nametables in the two VRAM banks
PpuImage ==
  [mem |-> (0 :> 17) @@ (1 :> 18) @@ (32 :> 19) @@ (8191 :> 20) @@ (16127 :> 21)
           @@ (16128 :> 22) @@ (16129 :> 23) @@ (16159 :> 24),
   vram_bank0 |-> (0 :> 25) @@ (1 :> 26) @@ (32 :> 27),
   vram_bank1 |-> (0 :> 28),
   mirroring |-> "Horizontal"]

PortReads == {8194, 16378, 8199, 8196, 2053}

PortWrites ==
  {[addr |-> 8198, value |-> 255, cycle |-> PPU_READY_CYCLE + 1],
   [addr |-> 8198, value |-> 33, cycle |-> PPU_READY_CYCLE + 1],
   [addr |-> 16382, value |-> 128, cycle |-> PPU_READY_CYCLE + 1],
   [addr |-> 8198, value |-> 33, cycle |-> PPU_READY_CYCLE],
   [addr |-> 8192, value |-> 4, cycle |-> PPU_READY_CYCLE + 1],
   [addr |-> 8192, value |-> 7, cycle |-> PPU_READY_CYCLE],
   [addr |-> 8193, value |-> 8, cycle |-> PPU_READY_CYCLE + 1],
   [addr |-> 8193, value |-> 8, cycle |-> PPU_READY_CYCLE],
   [addr |-> 8197, value |-> 125, cycle |-> PPU_READY_CYCLE],
   [addr |-> 8195, value |-> 250, cycle |-> PPU_READY_CYCLE],
   [addr |-> 8196, value |-> 17, cycle |-> PPU_READY_CYCLE],
   [addr |-> 8197, value |-> 125, cycle |-> PPU_READY_CYCLE + 1],
   [addr |-> 8199, value |-> 51, cycle |-> PPU_READY_CYCLE],
   [addr |-> 5, value |-> 7, cycle |-> PPU_READY_CYCLE],
   [addr |-> 16404, value |-> 0, cycle |-> PPU_READY_CYCLE],
   [addr |-> 16404, value |-> 8, cycle |-> PPU_READY_CYCLE],
   [addr |-> 16404, value |-> 255, cycle |-> PPU_READY_CYCLE]}

InitPorts ==
  /\ mapper = [Mapper_new("any", FALSE) EXCEPT !.ppu_mem = PpuImage]
  /\ \E sf \in StatusFiles, af \in AddressFiles, cf \in ControlFiles :
       ppu = [Ppu_new EXCEPT !.ppu_status = sf.ppu_status, !.w = sf.w,
                             !.v = af.v, !.t = af.t, !.x = 5,
                             !.ppu_ctrl = cf.ppu_ctrl, !.oam_addr = cf.oam_addr,
                             !.ppudata_read_buffer = 90]
  /\ nes = NesState_new
  /\ cpu = Cpu_new(Machine(ppu, mapper, nes))
  /\ main = [Main_new(1, 0) EXCEPT !.pc = "bus"]
  /\ gui = Gui_new
  /\ obs = Obs_new
  /\ bus = <<>>

\* the CPU executes LDA addr: state.cpu_mem_read through Cpu::do_mem_read
ExecuteLda ==
  /\ main.pc = "bus"
  /\ Len(bus) < MaxPortOps
  /\ \E addr \in PortReads :
       \E r \in {execute(cpu, Machine(ppu, mapper, nes), LDA_ABS(addr))} :
         /\ cpu' = r.cpu
         /\ ppu' = r.state.ppu
         /\ mapper' = r.state.mapper
         /\ nes' = r.state.nes
         /\ bus' = Append(bus, [op |-> "read", addr |-> addr, value |-> r.cpu.A,
                                cycles |-> r.cycles, ppu |-> ppu])
  /\ UNCHANGED <<main, gui, obs>>

\* the CPU executes STA addr with A = value, the write being stamped with the cycle
\* count c.cycle: state.cpu_mem_write through Cpu::do_mem_write
ExecuteSta ==
  /\ main.pc = "bus"
  /\ Len(bus) < MaxPortOps
  /\ \E c \in PortWrites :
       \E r \in {execute([cpu EXCEPT !.A = c.value,
                                     !.cycle_count = c.cycle - STA_ABS(c.addr).cycles],
                         Machine(ppu, mapper, nes), STA_ABS(c.addr))} :
         /\ cpu' = r.cpu
         /\ ppu' = r.state.ppu
         /\ mapper' = r.state.mapper
         /\ nes' = r.state.nes
         /\ bus' = Append(bus, [op |-> "write", addr |-> c.addr, value |-> c.value,
                                cycle |-> r.writes[1].cycle, cycles |-> r.cycles,
                                ppu |-> ppu])
  /\ UNCHANGED <<main, gui, obs>>

NextPorts == ExecuteLda \/ ExecuteSta

SpecPorts == InitPorts /\ [][NextPorts]_vars

(***************************************************************************)
(* The properties.  Spec and SpecFrames are observed at the boundaries of  *)
(* the 'mainloop iterations: obs holds the CPU steps and the PPU ticks of  *)
(* the iteration that just ended.  SpecPorts is observed after each load   *)
(* or store: bus holds them, each with the Ppu it found.                   *)
(***************************************************************************)
LoopBoundary == main.pc = "loop"

\* C1, as the specification states it: at every scheduler loop boundary the PPU's
\* total dot counter equals 3*c + 21, c being the CPU cycle counter.
C1_DotsAreThreeCyclesPlus21 ==
  LoopBoundary => ppu.total_cycle_count = 3 * cpu.cycle_count + 21

\* C1, amended: the CPU cycle counter starts at 7 with the dot counter at 0, and at
\* every scheduler loop boundary the dot counter equals 3*c - 21, after any sequence of
\* instructions, OAM DMA included.
C1_DotsAreThreeCyclesMinus21 ==
  /\ main.cycle = 7 => cpu.cycle_count = 7 /\ ppu.total_cycle_count = 0
  /\ LoopBoundary => ppu.total_cycle_count = 3 * cpu.cycle_count - 21

\* a loop boundary after a step that triggered OAM DMA
C1_AfterDma ==
  /\ LoopBoundary
  /\ \E k \in DOMAIN obs.steps :
       /\ obs.steps[k].cycles > 513
       /\ \E j \in DOMAIN obs.steps[k].writes : obs.steps[k].writes[j].addr = 16404
  /\ ppu.total_cycle_count > 3 * 513

\* the ticks of the last for loop at which a predicate holds
TicksWhere(P(_)) == {i \in DOMAIN obs.log : P(obs.log[i])}

AtVBlankStart(k) == k.scanline = 241 /\ k.scanline_cycle = 1

\* the bus writes of the NMI entry that starts with the Cpu c: PC high, PC low, then P
\* with bit 4 clear and bit 5 set, on the stack page from SP downwards
NmiEntryPushes(c) ==
  <<[addr |-> 256 + c.SP, value |-> c.PC \div 256],
    [addr |-> 256 + ((c.SP + 255) % 256), value |-> c.PC % 256],
    [addr |-> 256 + ((c.SP + 254) % 256),
     value |-> (c.P - (IF bit_is_set(4, c.P) THEN 16 ELSE 0))
               + (IF bit_is_set(5, c.P) THEN 0 ELSE 32)]>>

IsPort(addr, reg) == addr >= 8192 /\ addr <= 16383 /\ addr % 8 = reg

C4_VBlankStartsAtLine241Dot1 ==
  \A i \in DOMAIN obs.log :
    LET k == obs.log[i]
    IN /\ AtVBlankStart(k) => bit_is_set(7, k.status_after) /\ k.result.kind = "VBlankLine"
       /\ bit_is_set(7, k.status_after) /\ ~bit_is_set(7, k.status) => AtVBlankStart(k)
       /\ k.result.trigger_nmi <=> AtVBlankStart(k) /\ bit_is_set(7, k.ctrl)

\* the last for loop ticked scanline 241, dot 1 with V clear and NMI enabled
C4_VBlankStartWithNmi ==
  \E i \in DOMAIN obs.log :
    /\ AtVBlankStart(obs.log[i])
    /\ ~bit_is_set(7, obs.log[i].status)
    /\ bit_is_set(7, obs.log[i].status_after)
    /\ obs.log[i].result.trigger_nmi

\* the position after the i-th tick of the last for loop
PositionAfter(i) ==
  IF i < Len(obs.log)
  THEN <<obs.log[i + 1].scanline, obs.log[i + 1].scanline_cycle>>
  ELSE <<ppu.scanline, ppu.scanline_cycle>>

\* C5: the position advances dot by dot through scanlines 0..261 of dots 0..340; the
\* frame that begins when the position wraps to scanline 0 begins at dot 1 if its
\* number is odd and rendering is enabled at the wrap, at dot 0 otherwise, and lasts
\* 89341 ticks in the first case and 89342 in the other.
C5_FrameLength ==
  /\ ppu.scanline \in 0 .. 261 /\ ppu.scanline_cycle \in 0 .. 340
  /\ \A i \in DOMAIN obs.log :
       LET k == obs.log[i]
       IN IF k.scanline_cycle < 340
          THEN PositionAfter(i) = <<k.scanline, k.scanline_cycle + 1>>
          ELSE IF k.scanline < 261
          THEN PositionAfter(i) = <<k.scanline + 1, 0>>
          ELSE PositionAfter(i) \in {<<0, 0>>, <<0, 1>>}
  /\ obs.wrapped =>
       obs.frame_first_dot = IF obs.frame_odd /\ obs.frame_rendering THEN 1 ELSE 0
  /\ obs.frames_done > 0 =>
       obs.last_frame = IF obs.last_odd /\ obs.last_rendering THEN 89341 ELSE 89342

\* an odd frame with rendering enabled has ended, after an even one of full length
C5_ShortFrameEnded ==
  /\ obs.frames_done = 3
  /\ obs.last_odd /\ obs.last_rendering
  /\ obs.last_frame = 89341
  /\ ppu.frame = 4

\* C6: a tick returns a Pixel result exactly at the dots 1..256 of the scanlines
\* 0..239, with x = dot - 1; between two consecutive pre-render dot-2 results the sink
\* receives 240*256 pixels in raster order; render_frame is called once per frame, at
\* pre-render dot 2.
C6_PixelsOfAFrame ==
  /\ \A i \in DOMAIN obs.log :
       LET k == obs.log[i]
       IN /\ k.result.kind = "Pixel"
               <=> k.scanline <= 239 /\ k.scanline_cycle >= 1 /\ k.scanline_cycle <= 256
          /\ k.result.kind = "Pixel" =>
               k.result.x = k.scanline_cycle - 1 /\ k.result.scanline = k.scanline
  /\ gui.frames >= 2 => gui.committed = 240 * 256 /\ gui.committed_in_order
  /\ gui.frames = IF ppu.scanline = 261 /\ ppu.scanline_cycle >= 3
                  THEN ppu.frame + 1 ELSE ppu.frame
  /\ main.frame_count = gui.frames

\* the third render_frame committed a whole frame of pixels
C6_ThirdFrameRendered ==
  /\ gui.frames = 3
  /\ gui.committed = 61440
  /\ gui.committed_in_order
  /\ gui.pixels = 0

\* the last load or store, and the one before it
LastCall == bus[Len(bus)]

PrevCall == bus[Len(bus) - 1]

IsRead(call, reg) == call.op = "read" /\ IsPort(call.addr, reg)

\* a store the arbiter hands to the port: of the gated ports only after PPU_READY_CYCLE
IsWrite(call, reg) == call.op = "write" /\ IsPort(call.addr, reg)

\* C7: a read of $2002 through any mirror returns the status byte as it was before
\* the read, clears V (bit 7), resets w to first-write, and leaves the other status
\* bits, v, t and x unchanged.
C7_StatusRead ==
  bus # <<>> /\ IsRead(LastCall, 2) =>
    /\ LastCall.value = LastCall.ppu.ppu_status
    /\ ~bit_is_set(7, ppu.ppu_status)
    /\ \A b \in 0 .. 6 : bit_is_set(b, ppu.ppu_status) <=> bit_is_set(b, LastCall.ppu.ppu_status)
    /\ ppu.w = "FirstWrite"
    /\ ppu.v = LastCall.ppu.v /\ ppu.t = LastCall.ppu.t /\ ppu.x = LastCall.ppu.x

\* $2002 was read through the mirror $3FFA with V, sprite-0 hit and overflow set and
\* the toggle at second-write
C7_ReadThroughMirror ==
  /\ bus # <<>>
  /\ LastCall.op = "read" /\ LastCall.addr = 16378
  /\ LastCall.ppu.ppu_status = 224 /\ LastCall.ppu.w = "SecondWrite"
  /\ LastCall.value = 224 /\ ppu.ppu_status = 96

\* C8: starting with w at first-write, two consecutive writes of (h, l) to $2006 that
\* the PPU accepts leave v = ((h & 0x3F) << 8) | l, t = v and w at first-write,
\* whatever t and v held before.
C8_TwoAddrWrites ==
  /\ Len(bus) >= 2
  /\ IsWrite(PrevCall, 6) /\ PrevCall.cycle > PPU_READY_CYCLE
  /\ IsWrite(LastCall, 6) /\ LastCall.cycle > PPU_READY_CYCLE
  /\ PrevCall.ppu.w = "FirstWrite"
  => /\ ppu.v = (PrevCall.value % 64) * 256 + LastCall.value
     /\ ppu.t = ppu.v
     /\ ppu.w = "FirstWrite"

\* (0xFF, 0x21) was written to $2006 on a PPU whose t had bit 14 set
C8_HighBitsDropped ==
  /\ Len(bus) = 2
  /\ IsWrite(PrevCall, 6) /\ PrevCall.value = 255 /\ PrevCall.cycle > PPU_READY_CYCLE
  /\ IsWrite(LastCall, 6) /\ LastCall.value = 33 /\ LastCall.cycle > PPU_READY_CYCLE
  /\ PrevCall.ppu.w = "FirstWrite" /\ PrevCall.ppu.t = 16384
  /\ ppu.v = 16161

\* C9: a read of $2007 with v below $3F00 returns the read buffer as it was, loads
\* the buffer with the PPU-memory byte at the v of before and adds the VRAM increment
\* (32 if PPUCTRL bit 2 is set, 1 if not) to v, so that the second of two consecutive
\* such reads returns the byte the first one addressed; a read with v in $3F00-$3FFF
\* returns the byte at v.
C9_DataRead ==
  /\ bus # <<>> /\ IsRead(LastCall, 7) /\ LastCall.ppu.v < 16128 =>
       /\ LastCall.value = LastCall.ppu.ppudata_read_buffer
       /\ ppu.ppudata_read_buffer = Mapper_ppu_read(mapper, LastCall.ppu.v)
       /\ ppu.v = LastCall.ppu.v + (IF bit_is_set(2, LastCall.ppu.ppu_ctrl) THEN 32 ELSE 1)
  /\ Len(bus) >= 2 /\ IsRead(PrevCall, 7) /\ IsRead(LastCall, 7)
       /\ PrevCall.ppu.v < 16128 /\ LastCall.ppu.v < 16128 =>
       LastCall.value = Mapper_ppu_read(mapper, PrevCall.ppu.v)
  /\ bus # <<>> /\ IsRead(LastCall, 7)
       /\ LastCall.ppu.v >= 16128 /\ LastCall.ppu.v <= 16383 =>
       LastCall.value = Mapper_ppu_read(mapper, LastCall.ppu.v)

\* two consecutive reads of $2007 from v = 0 with increment 1: the second returned the
\* byte at 0 and left the byte at 1 in the buffer
C9_SecondReadOfARun ==
  /\ Len(bus) = 2
  /\ IsRead(PrevCall, 7) /\ IsRead(LastCall, 7)
  /\ PrevCall.ppu.v = 0 /\ LastCall.ppu.v = 1
  /\ PrevCall.value = 90 /\ LastCall.value = 17
  /\ ppu.ppudata_read_buffer = 18

\* C10: after a CPU write of H to $4014, OAM[(OAMADDR + i) mod 256] equals the byte a
\* CPU read of $HH00 + i returns, for all i in 0..255, the pages of the RAM mirrors
\* included; OAMADDR is unchanged and the instruction returns its base cycles plus 513.
C10_OamDmaCopiesWhatTheCpuReads ==
  bus # <<>> /\ LastCall.op = "write" /\ LastCall.addr = 16404 =>
    /\ \A i \in 0 .. 255 :
         Memory_read(ppu.oam, (LastCall.ppu.oam_addr + i) % 256)
           = cpu_mem_read(Machine(ppu, mapper, nes), LastCall.value * 256 + i).value
    /\ ppu.oam_addr = LastCall.ppu.oam_addr
    /\ LastCall.cycles = STA_ABS(LastCall.addr).cycles + 513

\* C10 without the pages of the RAM mirrors: what the code does for the other pages
C10_OamDmaOutsideTheMirrors ==
  bus # <<>> /\ LastCall.op = "write" /\ LastCall.addr = 16404
    /\ LastCall.value \notin 8 .. 31 =>
    /\ \A i \in 0 .. 255 :
         Memory_read(ppu.oam, (LastCall.ppu.oam_addr + i) % 256)
           = cpu_mem_read(Machine(ppu, mapper, nes), LastCall.value * 256 + i).value
    /\ ppu.oam_addr = LastCall.ppu.oam_addr
    /\ LastCall.cycles = STA_ABS(LastCall.addr).cycles + 513

(***************************************************************************)
(* SpecPpuMem: the PPU's memory alone.  The mapper set one of the four     *)
(* mirroring modes at start-up; the PPU then writes bytes through          *)
(* mapper.ppu_write, in any order.  bus holds the writes, each with the    *)
(* PpuMemory it found.                                                     *)
(***************************************************************************)
\* SpecPpuMem: writes explored in one run.
MaxMemOps == 2

\* palette entries, aliased and not, under their own address, a mirror in $3F20-$3FFF
\* and an address above $3FFF; the offset 5 of each nametable region and the last
\* offset of the first; the same offsets in $3000-$3EFF and above $3FFF
PpuWrites ==
  {[addr |-> addr, value |-> value] :
     addr \in {16128, 16144, 16132, 16156, 16176, 16360, 32524, 16129,
               8197, 9221, 10245, 11269, 9215,
               12293, 24581},
     value \in {7, 9}}

\* PpuMemory::set_mirroring
set_mirroring(pm, mode) == [pm EXCEPT !.mirroring = mode]

InitPpuMem ==
  /\ \E mode \in {"Horizontal", "Vertical", "OneScreen0", "OneScreen1"} :
       mapper = [Mapper_new("any", FALSE) EXCEPT !.ppu_mem = set_mirroring(@, mode)]
  /\ ppu = Ppu_new
  /\ nes = NesState_new
  /\ cpu = Cpu_new(Machine(ppu, mapper, nes))
  /\ main = [Main_new(1, 0) EXCEPT !.pc = "ppu_mem"]
  /\ gui = Gui_new
  /\ obs = Obs_new
  /\ bus = <<>>

\* mapper.ppu_write(addr, value)
PpuWrite ==
  /\ main.pc = "ppu_mem"
  /\ Len(bus) < MaxMemOps
  /\ \E wr \in PpuWrites :
       /\ mapper' = Mapper_ppu_write(mapper, wr.addr, wr.value)
       /\ bus' = Append(bus, [op |-> "ppu_write", addr |-> wr.addr, value |-> wr.value,
                              ppu_mem |-> mapper.ppu_mem])
  /\ UNCHANGED <<cpu, ppu, nes, main, gui, obs>>

SpecPpuMem == InitPpuMem /\ [][PpuWrite]_vars

\* the palette entry (0..31) a PPU address selects, -1 outside $3F00-$3FFF: addresses
\* wrap at $4000 and the 32 entries repeat through $3FFF
PaletteEntry(addr) == IF addr % 16384 >= 16128 THEN addr % 32 ELSE -1

\* the writes made so far to the palette entry e or to its alias e + $10
WritesToPair(e) == {i \in DOMAIN bus : PaletteEntry(bus[i].addr) \in {e, e + 16}}

\* the value of the most recent of a set of writes
MostRecent(writes) == bus[CHOOSE i \in writes : \A j \in writes : j <= i].value

\* C11: for every p in {$3F00, $3F04, $3F08, $3F0C}, after any sequence of PPU-memory
\* writes, a read of p and a read of p + $10 return the same value, the value of the
\* most recent write to either address, also when the write used a mirror in
\* $3F20-$3FFF or an address above $3FFF.
C11_PaletteAliases ==
  \A e \in {0, 4, 8, 12} :
    /\ Mapper_ppu_read(mapper, 16128 + e) = Mapper_ppu_read(mapper, 16144 + e)
    /\ WritesToPair(e) # {} => Mapper_ppu_read(mapper, 16128 + e) = MostRecent(WritesToPair(e))
    /\ WritesToPair(e) = {} => Mapper_ppu_read(mapper, 16128 + e) = 0

\* $3F08 was written through the mirror $3FE8 after $3F0C was written through $7F0C
C11_WrittenThroughMirrors ==
  /\ Len(bus) = 2
  /\ bus[1].addr = 32524 /\ bus[1].value = 9
  /\ bus[2].addr = 16360 /\ bus[2].value = 7
  /\ Mapper_ppu_read(mapper, 16152) = 7
  /\ Mapper_ppu_read(mapper, 16156) = 9

\* the nametable region (0..3) and the offset in it of an address in $2000-$2FFF
RegionOf(addr) == (addr - 8192) \div 1024

OffsetOf(addr) == (addr - 8192) % 1024

InNametables(addr) == addr >= 8192 /\ addr <= 12287

\* the regions the specification pairs on one physical bank
Paired(mode, i, j) ==
  CASE mode = "Horizontal" -> i \div 2 = j \div 2
    [] mode = "Vertical" -> i % 2 = j % 2
    [] mode \in {"OneScreen0", "OneScreen1"} -> TRUE

\* C12: for each mirroring mode, a PPU write to nametable address $2000 + 0x400*i + k
\* is read back at $2000 + 0x400*j + k exactly for the regions j that share region
\* i's physical bank (the others read what they read before), and leaves the other
\* bank unchanged: Horizontal pairs {0,1} and {2,3}, Vertical pairs {0,2} and {1,3},
\* OneScreen0 maps all four regions to bank 0 and OneScreen1 all four to bank 1.
C12_NametableMirroring ==
  bus # <<>> /\ InNametables(LastCall.addr) =>
    LET mode == mapper.ppu_mem.mirroring
        k == OffsetOf(LastCall.addr)
        old == [mapper EXCEPT !.ppu_mem = LastCall.ppu_mem]
    IN /\ \A j \in 0 .. 3 :
            Mapper_ppu_read(mapper, 8192 + 1024 * j + k)
              = IF Paired(mode, RegionOf(LastCall.addr), j) THEN LastCall.value
                ELSE Mapper_ppu_read(old, 8192 + 1024 * j + k)
       /\ \/ mapper.ppu_mem.vram_bank0 = LastCall.ppu_mem.vram_bank0
          \/ mapper.ppu_mem.vram_bank1 = LastCall.ppu_mem.vram_bank1
       /\ mode = "OneScreen0" => mapper.ppu_mem.vram_bank1 = LastCall.ppu_mem.vram_bank1
       /\ mode = "OneScreen1" => mapper.ppu_mem.vram_bank0 = LastCall.ppu_mem.vram_bank0

\* under horizontal mirroring a write to region 1 is read back in region 0 and not in
\* the regions 2 and 3, which keep an earlier write to region 3
C12_HorizontalPair ==
  /\ Len(bus) = 2
  /\ mapper.ppu_mem.mirroring = "Horizontal"
  /\ bus[1].addr = 11269 /\ bus[1].value = 9
  /\ bus[2].addr = 9221 /\ bus[2].value = 7
  /\ Mapper_ppu_read(mapper, 8197) = 7
  /\ Mapper_ppu_read(mapper, 10245) = 9
  /\ Mapper_ppu_read(mapper, 11269) = 9

\* offsets below 0xF00 at which the range $3000-$3EFF is compared with $2000-$2EFF
MirrorProbes == {0, 5, 1023, 1029, 3839}

\* C13: after any sequence of PPU-memory writes, a read of $3000 + k returns the same
\* value as a read of $2000 + k for every k < 0xF00, and a write to $3000 + k is
\* visible at $2000 + k.
C13_MirrorOfTheNametables ==
  /\ \A k \in MirrorProbes :
       Mapper_ppu_read(mapper, 12288 + k) = Mapper_ppu_read(mapper, 8192 + k)
  /\ bus # <<>> /\ LastCall.addr >= 12288 /\ LastCall.addr <= 16127 =>
       Mapper_ppu_read(mapper, LastCall.addr - 4096) = LastCall.value

\* what the code does with $3000-$3EFF: a write there is read back there, and changes
\* neither VRAM bank
C13_RangeIsItsOwnStorage ==
  bus # <<>> /\ LastCall.addr >= 12288 /\ LastCall.addr <= 16127 =>
    /\ Mapper_ppu_read(mapper, LastCall.addr) = LastCall.value
    /\ mapper.ppu_mem.vram_bank0 = LastCall.ppu_mem.vram_bank0
    /\ mapper.ppu_mem.vram_bank1 = LastCall.ppu_mem.vram_bank1

(***************************************************************************)
(* SpecPads: the controller ports alone.  The program writes $4016 and     *)
(* reads $4016 and $4017 in any order, and the host refreshes the two      *)
(* button bytes at any time (gui.process_events).  bus holds the last      *)
(* operation with the NesState it found; obs follows the strobe as the     *)
(* program drove it: the level of the last write, and, after a write with  *)
(* bit 0 = 0 that followed one with bit 0 = 1 (armed), the host bytes at   *)
(* that write and the reads of each port since.                            *)
(***************************************************************************)
\* SpecPads: reads of a port explored after a reload of its shift register.
MaxPadReads == 10

set_controller1_state(n, controller_state) == [n EXCEPT !.controller1_state = controller_state]

set_controller2_state(n, controller_state) == [n EXCEPT !.controller2_state = controller_state]

InitPads ==
  /\ mapper = Mapper_new("any", FALSE)
  /\ ppu = Ppu_new
  /\ nes = NesState_new
  /\ cpu = Cpu_new(Machine(ppu, mapper, nes))
  /\ main = [Main_new(1, 0) EXCEPT !.pc = "pads"]
  /\ gui = Gui_new
  /\ obs = [strobe |-> "none", armed |-> FALSE, s1 |-> 0, s2 |-> 0, n1 |-> 0, n2 |-> 0]
  /\ bus = <<>>

\* state.cpu_mem_write($4016, value)
PadWrite ==
  /\ main.pc = "pads"
  /\ \E value \in {0, 1, 254} :
       \E s \in {cpu_mem_write(Machine(ppu, mapper, nes), 16406, value, cpu.cycle_count)} :
         /\ ppu' = s.ppu /\ mapper' = s.mapper /\ nes' = s.nes
         /\ bus' = <<[op |-> "write", addr |-> 16406, value |-> value,
                      nes |-> nes, strobe |-> obs.strobe]>>
         /\ obs' = IF value % 2 = 1
                   THEN [obs EXCEPT !.strobe = "high", !.armed = FALSE, !.n1 = 0, !.n2 = 0]
                   ELSE IF obs.strobe = "high"
                   THEN [strobe |-> "low", armed |-> TRUE,
                         s1 |-> nes.controller1_state, s2 |-> nes.controller2_state,
                         n1 |-> 0, n2 |-> 0]
                   ELSE [obs EXCEPT !.strobe = "low", !.armed = FALSE, !.n1 = 0, !.n2 = 0]
  /\ UNCHANGED <<cpu, main, gui>>

\* state.cpu_mem_read of $4016 or $4017
PadRead ==
  /\ main.pc = "pads"
  /\ \E addr \in {16406, 16407} :
       /\ (IF addr = 16406 THEN nes.controller1_read_count ELSE nes.controller2_read_count)
            < MaxPadReads
       /\ \E r \in {cpu_mem_read(Machine(ppu, mapper, nes), addr)} :
            /\ ppu' = r.state.ppu /\ mapper' = r.state.mapper /\ nes' = r.state.nes
            /\ bus' = <<[op |-> "read", addr |-> addr, value |-> r.value,
                         nes |-> nes, strobe |-> obs.strobe]>>
       /\ obs' = IF ~obs.armed THEN obs
                 ELSE IF addr = 16406 THEN [obs EXCEPT !.n1 = @ + 1]
                 ELSE [obs EXCEPT !.n2 = @ + 1]
  /\ UNCHANGED <<cpu, main, gui>>

\* the tail of gui.process_events: the host's bytes are handed to the arbiter
HostUpdate ==
  /\ main.pc = "pads"
  /\ \E h \in {<<165, 90>>, <<90, 255>>} :
       /\ nes' = set_controller2_state(set_controller1_state(nes, h[1]), h[2])
       /\ bus' = <<[op |-> "host", addr |-> 0, value |-> h, nes |-> nes, strobe |-> obs.strobe]>>
  /\ UNCHANGED <<cpu, ppu, mapper, main, gui, obs>>

SpecPads == InitPads /\ [][PadWrite \/ PadRead \/ HostUpdate]_vars

\* bit i of a byte
BitOf(i, byte) == (byte \div (2 ^ i)) % 2

\* the shift register and the read count of a controller in a NesState
Latch1(n) == <<n.controller1_register, n.controller1_read_count>>

Latch2(n) == <<n.controller2_register, n.controller2_read_count>>

\* C14: after a write to $4016 with bit 0 = 1 followed by a write with bit 0 = 0 while
\* the host byte of controller 1 is s, the next eight reads of $4016 return
\* 0x40 | bit i of s for i = 0..7 in that order and every later read returns 0x41
\* until the next strobe; the same holds for $4017 with controller 2's byte, and the
\* reads of one port do not change what the other port returns.
C14_SerialRead ==
  bus # <<>> /\ LastCall.op = "read" /\ obs.armed =>
    LET n == IF LastCall.addr = 16406 THEN obs.n1 ELSE obs.n2
        s == IF LastCall.addr = 16406 THEN obs.s1 ELSE obs.s2
    IN LastCall.value = IF n <= 8 THEN 64 + BitOf(n - 1, s) ELSE 65

\* the eighth read of $4016 returned Right of the byte latched, after two reads of
\* $4017 and a change of the host's bytes; the ninth read is to come
C14_EighthRead ==
  /\ bus # <<>> /\ LastCall.op = "read" /\ LastCall.addr = 16406
  /\ obs.armed /\ obs.n1 = 8 /\ obs.n2 = 2
  /\ obs.s1 = 165 /\ obs.s2 = 90
  /\ nes.controller1_state = 90
  /\ LastCall.value = 65

\* C15: while the strobe is high (the last write to $4016 had bit 0 = 1) every read of
\* $4016 returns 0x40 | bit 0 of the current host byte of controller 1, however many
\* reads have been made since the strobe went high.
C15_ReloadWhileHigh ==
  bus # <<>> /\ LastCall.op = "read" /\ LastCall.addr = 16406 /\ obs.strobe = "high" =>
    LastCall.value = 64 + BitOf(0, LastCall.nes.controller1_state)

\* what the code does while the strobe is high: a read shifts the register as it does
\* while the strobe is low, whatever the host holds
C15_ReadsShiftWhileHigh ==
  bus # <<>> /\ LastCall.op = "read" /\ LastCall.addr = 16406 /\ obs.strobe = "high" =>
    /\ LastCall.value = IF LastCall.nes.controller1_read_count >= 8 THEN 65
                        ELSE 64 + BitOf(0, LastCall.nes.controller1_register)
    /\ nes.controller1_read_count = LastCall.nes.controller1_read_count + 1

\* C16: once the strobe is low, until a write to $4016 with bit 0 = 1, each
\* controller's latch contents and read position change only through reads of its own
\* port: they are unchanged by host state updates, by reads of the other port and by
\* further writes to $4016 with bit 0 = 0.
C16_FrozenWhileLow ==
  bus # <<>> /\ LastCall.strobe = "low" =>
    /\ LastCall.op = "host" => Latch1(nes) = Latch1(LastCall.nes) /\ Latch2(nes) = Latch2(LastCall.nes)
    /\ LastCall.op = "read" /\ LastCall.addr = 16406 => Latch2(nes) = Latch2(LastCall.nes)
    /\ LastCall.op = "read" /\ LastCall.addr = 16407 => Latch1(nes) = Latch1(LastCall.nes)
    /\ LastCall.op = "write" /\ LastCall.value % 2 = 0 =>
         Latch1(nes) = Latch1(LastCall.nes) /\ Latch2(nes) = Latch2(LastCall.nes)

\* C16 without the further writes: what holds of the code
C16_FrozenAgainstHostAndReads ==
  bus # <<>> /\ LastCall.strobe = "low" =>
    /\ LastCall.op = "host" => Latch1(nes) = Latch1(LastCall.nes) /\ Latch2(nes) = Latch2(LastCall.nes)
    /\ LastCall.op = "read" /\ LastCall.addr = 16406 => Latch2(nes) = Latch2(LastCall.nes)
    /\ LastCall.op = "read" /\ LastCall.addr = 16407 => Latch1(nes) = Latch1(LastCall.nes)

(***************************************************************************)
(* mappers/m001_mmc1.rs and mappers/m002_unrom.rs: the cartridges with     *)
(* switchable PRG banks.  A ROM bank is kept like a Memory, as the         *)
(* function of its non-zero bytes indexed from 0; the vectors of banks are *)
(* indexed from 0 as in the code.  An index past the end of a vector       *)
(* panics: the mapper is then marked `panicked` and nothing runs after it. *)
(***************************************************************************)

\* Memory::load(addr, data) for data of `size` bytes: data[i] goes to addr + i
Memory_load(mem, addr, data, size) ==
  LET new(a) == IF a >= addr /\ a < addr + size
                THEN (IF (a - addr) \in DOMAIN data THEN data[a - addr] ELSE 0)
                ELSE mem[a]
  IN [a \in {x \in {y \in DOMAIN mem : y < addr \/ y >= addr + size} \cup {addr + i : i \in DOMAIN data} :
               new(x) # 0} |-> new(a)]

\* InesRom: an image of num_prg 16 KiB PRG chunks and num_chr 8 KiB CHR chunks whose
\* first and last bytes (and, for CHR, the bytes around the 4 KiB boundary) tell the
\* chunks apart, every other byte being 0
InesRom(num_prg, num_chr, mirroring) ==
  [header |-> [num_prg_rom_chunks |-> num_prg, num_chr_rom_chunks |-> num_chr, mirroring |-> mirroring],
   prg_rom |-> [k \in 0 .. (num_prg - 1) |-> (0 :> (16 * k + 17)) @@ (16383 :> (16 * k + 18))],
   chr_rom |-> [k \in 0 .. (num_chr - 1) |->
                  (0 :> (16 * k + 21)) @@ (4095 :> (16 * k + 22)) @@
                  (4096 :> (16 * k + 23)) @@ (8191 :> (16 * k + 24))]]

\* m001_mmc1::new followed by Mmc1Mapper::load_rom: init_prg_banks copies the PRG chunks,
\* init_chr_banks cuts every CHR chunk into two 4 KiB banks (two empty banks when the
\* image has no CHR), and the first and the last PRG bank are loaded at $8000 and $C000
Mmc1Mapper_load_rom(ines) ==
  LET chr_rom_banks ==
        IF ines.header.num_chr_rom_chunks > 0
        THEN [b \in 0 .. (2 * ines.header.num_chr_rom_chunks - 1) |->
                [o \in {x \in 0 .. 4095 : Memory_read(ines.chr_rom[b \div 2], 4096 * (b % 2) + x) # 0} |->
                    ines.chr_rom[b \div 2][4096 * (b % 2) + o]]]
        ELSE [b \in 0 .. 1 |-> <<>>]
  IN [number |-> 1,
      cpu_mem |-> Memory_load(Memory_load(<<>>, 32768, ines.prg_rom[0], 16384),
                              49152, ines.prg_rom[ines.header.num_prg_rom_chunks - 1], 16384),
      ppu_mem |-> <<>>,
      mirroring |-> "Vertical",
      prg_rom_banks |-> ines.prg_rom,
      chr_rom_banks |-> chr_rom_banks,
      shift_register |-> 0,
      reg_write_count |-> 0,
      prg_rom_bank_mode |-> "BankC000Fixed",
      chr_rom_bank_mode |-> "Switch8KB",
      panicked |-> FALSE]

\* the serial load with the new bit entering at bit 0 and the older bits moving up
push_shift_reg_msb_first(m, value) ==
  IF bit_is_set(7, value)
  THEN [status |-> "Cleared", m |-> [m EXCEPT !.shift_register = 0, !.reg_write_count = 0]]
  ELSE IF m.reg_write_count + 1 = 5
       THEN [status |-> "Ready",
             m |-> [m EXCEPT !.shift_register = ((2 * m.shift_register) % 32) + (value % 2),
                             !.reg_write_count = 0]]
       ELSE [status |-> "Partial",
             m |-> [m EXCEPT !.shift_register = ((2 * m.shift_register) % 32) + (value % 2),
                             !.reg_write_count = m.reg_write_count + 1]]

\* Mmc1Mapper::push_shift_reg(value): bit 7 clears the register and the count; otherwise
\* the register moves right by one, bit 0 of the value enters at bit 4, and the fifth
\* write reports Ready with the count back at 0 (u8 arithmetic)
push_shift_reg(m, value) ==
  IF bit_is_set(7, value)
  THEN [status |-> "Cleared", m |-> [m EXCEPT !.shift_register = 0, !.reg_write_count = 0]]
  ELSE LET counted(shift_register, reg_write_count) ==
             IF reg_write_count > 5
             THEN [status |-> "Panic", m |-> [m EXCEPT !.panicked = TRUE]]
             ELSE IF reg_write_count = 5
             THEN [status |-> "Ready",
                   m |-> [m EXCEPT !.shift_register = shift_register, !.reg_write_count = 0]]
             ELSE [status |-> "Partial",
                   m |-> [m EXCEPT !.shift_register = shift_register,
                                   !.reg_write_count = reg_write_count]]
       IN counted(BitOr(Shr(m.shift_register, 1), ((value % 2) * 16) % 256),
                  (m.reg_write_count + 1) % 256)

\* Mmc1Mapper::mirror_nametables on the PPU memory: 1 KiB slices are copied from one
\* nametable over the others, each slice taken after the loads before it (a slice is
\* kept, like the memory, as the function of its non-zero bytes)
mirror_nametables(ppu_mem, mirroring) ==
  LET nt_slice(pm, from) ==
        [i \in {a - from : a \in {x \in DOMAIN pm : x >= from /\ x < from + 1024}} |-> pm[from + i]]
      copy(pm, from, to) == Memory_load(pm, to, nt_slice(pm, from), 1024)
      copy3(pm, data, a, b, c) ==
        Memory_load(Memory_load(Memory_load(pm, a, data, 1024), b, data, 1024), c, data, 1024)
  IN CASE mirroring = "Vertical"   -> copy(copy(ppu_mem, 8192, 10240), 9216, 11264)
       [] mirroring = "Horizontal" -> copy(copy(ppu_mem, 8192, 9216), 10240, 11264)
       [] mirroring = "OneScreen0" -> copy3(ppu_mem, nt_slice(ppu_mem, 8192), 9216, 10240, 11264)
       [] mirroring = "OneScreen1" -> copy3(ppu_mem, nt_slice(ppu_mem, 9216), 8192, 10240, 11264)

\* Mmc1Mapper::handle_control_register: bits 0-1 of the shift register give the
\* mirroring (and the nametables are copied for it), bits 2-3 the PRG mode, bit 4 the
\* CHR mode
handle_control_register(m) ==
  LET decoded(mirror_mode, prg_mode, chr_mode, mirroring) ==
        [m EXCEPT !.mirroring = mirroring,
                  !.ppu_mem = mirror_nametables(m.ppu_mem, mirroring),
                  !.prg_rom_bank_mode = CASE prg_mode \in {0, 1} -> "Bank8000_32KB"
                                          [] prg_mode = 2 -> "Bank8000Fixed"
                                          [] prg_mode = 3 -> "BankC000Fixed",
                  !.chr_rom_bank_mode = IF chr_mode = 0 THEN "Switch8KB" ELSE "Switch4KB"]
  IN decoded(m.shift_register % 4, (m.shift_register \div 4) % 4, (m.shift_register \div 16) % 2,
             CASE m.shift_register % 4 = 0 -> "OneScreen0"
               [] m.shift_register % 4 = 1 -> "OneScreen1"
               [] m.shift_register % 4 = 2 -> "Vertical"
               [] m.shift_register % 4 = 3 -> "Horizontal")

\* Mmc1Mapper::handle_chr0_register: in 8 KiB mode the banks (sr & 0x1E) and the next
\* one go to $0000 and $1000, in 4 KiB mode the bank sr goes to $0000
handle_chr0_register(m) ==
  LET bank == IF m.chr_rom_bank_mode = "Switch8KB"
              THEN m.shift_register - (m.shift_register % 2) - 32 * (m.shift_register \div 32)
              ELSE m.shift_register
      last == IF m.chr_rom_bank_mode = "Switch8KB" THEN bank + 1 ELSE bank
  IN IF last \notin DOMAIN m.chr_rom_banks
     THEN [m EXCEPT !.panicked = TRUE]
     ELSE IF m.chr_rom_bank_mode = "Switch8KB"
     THEN [m EXCEPT !.ppu_mem = Memory_load(Memory_load(m.ppu_mem, 0, m.chr_rom_banks[bank], 4096),
                                            4096, m.chr_rom_banks[bank + 1], 4096)]
     ELSE [m EXCEPT !.ppu_mem = Memory_load(m.ppu_mem, 0, m.chr_rom_banks[bank], 4096)]

\* Mmc1Mapper::handle_chr1_register: nothing in 8 KiB mode, the bank sr to $1000 in
\* 4 KiB mode
handle_chr1_register(m) ==
  IF m.chr_rom_bank_mode = "Switch8KB" THEN m
  ELSE IF m.shift_register \notin DOMAIN m.chr_rom_banks
  THEN [m EXCEPT !.panicked = TRUE]
  ELSE [m EXCEPT !.ppu_mem = Memory_load(m.ppu_mem, 4096, m.chr_rom_banks[m.shift_register], 4096)]

\* Mmc1Mapper::handle_prg_register: in 32 KiB mode the banks (sr & 0x1E) and the next
\* one go to $8000 and $C000; in Bank8000Fixed mode the bank sr goes to $C000; in
\* BankC000Fixed mode the bank sr goes to $8000
handle_prg_register(m) ==
  LET bank == IF m.prg_rom_bank_mode = "Bank8000_32KB"
              THEN m.shift_register - (m.shift_register % 2) - 32 * (m.shift_register \div 32)
              ELSE m.shift_register
      last == IF m.prg_rom_bank_mode = "Bank8000_32KB" THEN bank + 1 ELSE bank
  IN IF last \notin DOMAIN m.prg_rom_banks
     THEN [m EXCEPT !.panicked = TRUE]
     ELSE CASE m.prg_rom_bank_mode = "Bank8000_32KB" ->
                 [m EXCEPT !.cpu_mem = Memory_load(Memory_load(m.cpu_mem, 32768, m.prg_rom_banks[bank], 16384),
                                                   49152, m.prg_rom_banks[bank + 1], 16384)]
            [] m.prg_rom_bank_mode = "Bank8000Fixed" ->
                 [m EXCEPT !.cpu_mem = Memory_load(m.cpu_mem, 49152, m.prg_rom_banks[bank], 16384)]
            [] m.prg_rom_bank_mode = "BankC000Fixed" ->
                 [m EXCEPT !.cpu_mem = Memory_load(m.cpu_mem, 32768, m.prg_rom_banks[bank], 16384)]

\* Mmc1Mapper::reset: the control handler runs on the value 0x0C, the shift register is
\* cleared and the last PRG bank is loaded at $C000
Mmc1Mapper_reset(m) ==
  LET handled(h) ==
        [h EXCEPT !.shift_register = 0,
                  !.cpu_mem = Memory_load(h.cpu_mem, 49152,
                                          h.prg_rom_banks[Cardinality(DOMAIN h.prg_rom_banks) - 1], 16384)]
  IN handled(handle_control_register([m EXCEPT !.shift_register = 12]))

\* Mmc1Mapper::cpu_write(addr, value): below $8000 the byte is stored; from $8000 up the
\* value goes through push_shift_reg, a Cleared status resets, a Ready status runs the
\* handler of the address range and clears the shift register
Mmc1Mapper_cpu_write(m, addr, value) ==
  IF addr >= 32768
  THEN LET pushed(r) ==
             CASE r.status = "Cleared" -> Mmc1Mapper_reset(r.m)
               [] r.status = "Ready" ->
                    LET handled(h) == IF h.panicked THEN h ELSE [h EXCEPT !.shift_register = 0]
                    IN handled(CASE addr <= 40959 -> handle_control_register(r.m)
                                 [] addr >= 40960 /\ addr <= 49151 -> handle_chr0_register(r.m)
                                 [] addr >= 49152 /\ addr <= 57343 -> handle_chr1_register(r.m)
                                 [] addr >= 57344 -> handle_prg_register(r.m))
               [] OTHER -> r.m
       IN pushed(push_shift_reg(m, value))
  ELSE [m EXCEPT !.cpu_mem = Memory_write(m.cpu_mem, addr, value)]

\* the bank switch that loads the selected bank at $C000
UnromMapper_cpu_write_high_window(m, addr, value) ==
  IF addr < 32768
  THEN [m EXCEPT !.cpu_mem = Memory_write(m.cpu_mem, addr, value)]
  ELSE IF (value % 16) \notin DOMAIN m.prg_rom_banks
  THEN [m EXCEPT !.panicked = TRUE]
  ELSE [m EXCEPT !.cpu_mem = Memory_load(m.cpu_mem, 49152, m.prg_rom_banks[value % 16], 16384)]

\* m002_unrom::new followed by UnromMapper::load_rom: the PRG chunks are copied, the
\* first and the last are loaded at $8000 and $C000, the header's mirroring is set
UnromMapper_load_rom(ines) ==
  [number |-> 2,
   cpu_mem |-> Memory_load(Memory_load(<<>>, 32768, ines.prg_rom[0], 16384),
                           49152, ines.prg_rom[ines.header.num_prg_rom_chunks - 1], 16384),
   ppu_mem |-> set_mirroring([mem |-> <<>>, vram_bank0 |-> <<>>, vram_bank1 |-> <<>>,
                              mirroring |-> "Horizontal"], ines.header.mirroring),
   mirroring |-> ines.header.mirroring,
   prg_rom_banks |-> ines.prg_rom,
   panicked |-> FALSE]

\* UnromMapper::cpu_write(addr, value): below $8000 the byte is stored; from $8000 up the
\* bank (value & 0x0F) is loaded at $8000
UnromMapper_cpu_write(m, addr, value) ==
  IF addr < 32768
  THEN [m EXCEPT !.cpu_mem = Memory_write(m.cpu_mem, addr, value)]
  ELSE IF (value % 16) \notin DOMAIN m.prg_rom_banks
  THEN [m EXCEPT !.panicked = TRUE]
  ELSE [m EXCEPT !.cpu_mem = Memory_load(m.cpu_mem, 32768, m.prg_rom_banks[value % 16], 16384)]

(***************************************************************************)
(* The cartridge under CPU writes: get_mapper builds the mapper of the     *)
(* image's number and load_rom fills it; every step is one cpu_write of    *)
(* the mapper.  `bus` holds the last write, obs.bits the bit-0 values      *)
(* written to $8000-$FFFF since the MMC1 shift register was last empty,    *)
(* obs.select the value of the last UNROM write to $8000-$FFFF (-1: none). *)
(* The MMC1 cartridge without CHR ROM is met with nametable bytes the PPU   *)
(* has written under the power-on Vertical arrangement, and its program    *)
(* also stores to the work RAM at $6000.                                   *)
(***************************************************************************)
MmcPrgChunks == 2

UnromPrgChunks == 4

InitCart ==
  /\ \E number \in {1, 2}, num_chr \in {0, 1}, mirroring \in {"Horizontal", "Vertical"} :
       mapper = IF number = 1
                THEN [Mmc1Mapper_load_rom(InesRom(MmcPrgChunks, num_chr, mirroring)) EXCEPT
                        !.ppu_mem = IF num_chr = 0
                                    THEN (8192 :> 7) @@ (10240 :> 7) @@ (9216 :> 9) @@ (11264 :> 9)
                                    ELSE @]
                ELSE UnromMapper_load_rom(InesRom(UnromPrgChunks, 0, mirroring))
  /\ ppu = Ppu_new
  /\ nes = NesState_new
  /\ cpu = Cpu_new(Machine(Ppu_new, Mapper_new("any", FALSE), NesState_new))
  /\ main = [Main_new(1, 0) EXCEPT !.pc = "cart"]
  /\ gui = Gui_new
  /\ obs = [bits |-> <<>>, select |-> -1]
  /\ bus = <<>>

CartWrite ==
  /\ main.pc = "cart"
  /\ ~mapper.panicked
  /\ \E addr \in {24576, 40959, 40960, 49152, 65535},
        value \in IF mapper.number = 1 THEN {1, 126, 128} ELSE {0, 1, 18, 131, 255} :
       /\ mapper.number = 1 /\ addr < 32768 => value = 1 /\ DOMAIN mapper.chr_rom_banks[0] = {}
       /\ \E written \in {IF mapper.number = 1
                           THEN Mmc1Mapper_cpu_write(mapper, addr, value)
                           ELSE UnromMapper_cpu_write(mapper, addr, value)} :
            \* a panic ends the process: nothing of the mapper is left to look at
            mapper' = IF written.panicked
                      THEN [number |-> mapper.number, panicked |-> TRUE]
                      ELSE written
       /\ bus' = <<[op |-> "cpu_write", addr |-> addr, value |-> value]>>
       /\ obs' = [bits |-> IF addr < 32768 \/ mapper.number # 1 THEN obs.bits
                           ELSE IF bit_is_set(7, value) THEN <<>>
                           ELSE IF Len(obs.bits) = 5 THEN <<value % 2>>
                           ELSE Append(obs.bits, value % 2),
                  select |-> IF addr >= 32768 /\ mapper.number = 2 THEN value ELSE obs.select]
  /\ UNCHANGED <<cpu, ppu, nes, main, gui>>

SpecCart == InitCart /\ [][CartWrite]_vars

\* the value five serial bits make, the first written being the lowest
SerialValue(bits) == bits[1] + 2 * bits[2] + 4 * bits[3] + 8 * bits[4] + 16 * bits[5]

\* the internal register address bits 13-14 select, acting on the value in m.shift_register
RegisterWrite(addr, m) ==
  CASE (addr \div 8192) % 4 = 0 -> handle_control_register(m)
    [] (addr \div 8192) % 4 = 1 -> handle_chr0_register(m)
    [] (addr \div 8192) % 4 = 2 -> handle_chr1_register(m)
    [] (addr \div 8192) % 4 = 3 -> handle_prg_register(m)

\* all of the mapper but the shift register and the write count
Registers(m) == [m EXCEPT !.shift_register = 0, !.reg_write_count = 0]

\* C17: on MMC1, starting from an empty shift register, the fifth write in $8000-$FFFF
\* with bit 7 clear delivers b0 + 2*b1 + 4*b2 + 8*b3 + 16*b4 (the bit-0 values of the
\* five writes) to the register selected by address bits 13-14 of that fifth write and
\* leaves the shift register and the write count at zero; the first four writes update
\* no register (a delivery that indexes past the banks of the image ends the process
\* and is not judged here)
C17_SerialLoad ==
  [][ (mapper.number = 1 /\ ~mapper'.panicked /\ bus'[1].addr >= 32768
         /\ ~bit_is_set(7, bus'[1].value))
      => IF Len(obs'.bits) = 5
         THEN /\ mapper' = Registers(RegisterWrite(bus'[1].addr,
                                        [mapper EXCEPT !.shift_register = SerialValue(obs'.bits)]))
              /\ mapper'.shift_register = 0
              /\ mapper'.reg_write_count = 0
         ELSE Registers(mapper') = Registers(mapper) ]_vars

\* C17 witness: the bits 1,0,0,0,0 were written, the fifth to $FFFF, and PRG bank 1 is
\* at $8000
C17_BankOneSelected ==
  /\ main.pc = "cart"
  /\ mapper.number = 1
  /\ ~mapper.panicked
  /\ obs.bits = <<1, 0, 0, 0, 0>>
  /\ bus[1].addr = 65535
  /\ mapper.shift_register = 0
  /\ mapper.reg_write_count = 0
  /\ Mapper_cpu_read(mapper, 32768) = Memory_read(mapper.prg_rom_banks[1], 0)
  /\ Mapper_cpu_read(mapper, 32768) # Memory_read(mapper.prg_rom_banks[0], 0)

\* C18: an MMC1 write in $8000-$FFFF with bit 7 set, at any point of a serial load,
\* clears the shift register and the write count, forces the PRG mode "16 KiB bank at
\* $C000 fixed to the last bank", and leaves the mirroring mode and the CHR bank mode
\* as they were
C18_ResetKeepsMirroringAndChrMode ==
  [][ (mapper.number = 1 /\ bus'[1].addr >= 32768 /\ bit_is_set(7, bus'[1].value))
      => /\ mapper'.shift_register = 0
         /\ mapper'.reg_write_count = 0
         /\ mapper'.prg_rom_bank_mode = "BankC000Fixed"
         /\ mapper'.mirroring = mapper.mirroring
         /\ mapper'.chr_rom_bank_mode = mapper.chr_rom_bank_mode ]_vars

\* what the reset write does: the shift register and the count are cleared, the last
\* bank is at $C000 in the mode BankC000Fixed, and the control handler has run on the
\* value 0x0C itself: one-screen mirroring on nametable 0 and the 8 KiB CHR mode
C18_ResetLoadsControlWith0C ==
  [][ (mapper.number = 1 /\ bus'[1].addr >= 32768 /\ bit_is_set(7, bus'[1].value))
      => /\ mapper'.shift_register = 0
         /\ mapper'.reg_write_count = 0
         /\ obs'.bits = <<>>
         /\ mapper'.prg_rom_bank_mode = "BankC000Fixed"
         /\ \A o \in {0, 5, 16383} :
              Mapper_cpu_read(mapper', 49152 + o) =
                Memory_read(mapper.prg_rom_banks[Cardinality(DOMAIN mapper.prg_rom_banks) - 1], o)
         /\ mapper'.mirroring = "OneScreen0"
         /\ mapper'.chr_rom_bank_mode = "Switch8KB" ]_vars

\* C19: on MMC1, whenever the PRG mode is "switchable $8000, 16 KiB fixed at $C000",
\* CPU reads in $C000-$FFFF return the contents of the last PRG bank, whatever writes
\* led to that mode
C19_LastBankAtC000 ==
  (main.pc = "cart" /\ mapper.number = 1 /\ ~mapper.panicked
     /\ mapper.prg_rom_bank_mode = "BankC000Fixed")
  => \A o \in {0, 5, 16383} :
       Mapper_cpu_read(mapper, 49152 + o) =
         Memory_read(mapper.prg_rom_banks[Cardinality(DOMAIN mapper.prg_rom_banks) - 1], o)

\* what the code does on the way into that mode: a write without bit 7 that leaves
\* the PRG mode at BankC000Fixed leaves the bytes at $C000-$FFFF as they were
C19_ControlWriteKeepsWindow ==
  [][ (mapper.number = 1 /\ ~mapper'.panicked /\ ~bit_is_set(7, bus'[1].value)
         /\ mapper'.prg_rom_bank_mode = "BankC000Fixed")
      => \A o \in {0, 5, 16383} :
           Mapper_cpu_read(mapper', 49152 + o) = Mapper_cpu_read(mapper, 49152 + o) ]_vars

\* C20: on UNROM, after any sequence of CPU writes, reads in $C000-$FFFF return the last
\* PRG bank as loaded and reads in $8000-$BFFF return the PRG bank (value & 0x0F) of
\* the most recent write in $8000-$FFFF (bank 0 if there was none); no write changes
\* the PRG banks and a write below $8000 does not change what is read at $8000-$BFFF
\* (a select past the banks of the image ends the process and is not judged here)
C20_UnromBanks ==
  /\ []((main.pc = "cart" /\ mapper.number = 2 /\ ~mapper.panicked)
        => \A o \in {0, 5, 16383} :
             /\ Mapper_cpu_read(mapper, 49152 + o) =
                  Memory_read(mapper.prg_rom_banks[Cardinality(DOMAIN mapper.prg_rom_banks) - 1], o)
             /\ Mapper_cpu_read(mapper, 32768 + o) =
                  Memory_read(mapper.prg_rom_banks[IF obs.select = -1 THEN 0
                                                   ELSE BitAnd(obs.select, 15)], o))
  /\ [][ (mapper.number = 2 /\ ~mapper'.panicked)
         => /\ mapper'.prg_rom_banks = mapper.prg_rom_banks
            /\ bus'[1].addr < 32768
                 => \A o \in {0, 5, 16383} :
                      Mapper_cpu_read(mapper', 32768 + o) = Mapper_cpu_read(mapper, 32768 + o) ]_vars

\* C20 witness: bank 3 was selected by the value $83, a byte was then stored at $6000,
\* and $8000 reads the first byte of bank 3
C20_BankThreeSelected ==
  /\ main.pc = "cart"
  /\ mapper.number = 2
  /\ ~mapper.panicked
  /\ obs.select = 131
  /\ bus[1].addr = 24576
  /\ Mapper_cpu_read(mapper, 24576) = 18
  /\ Mapper_cpu_read(mapper, 32768) = Memory_read(mapper.prg_rom_banks[3], 0)
  /\ Mapper_cpu_read(mapper, 32768) # Memory_read(mapper.prg_rom_banks[0], 0)

(***************************************************************************)
(* cpu.rs: the instruction set.  OP_CODES is the jump table, one row per   *)
(* opcode in the order of the source: the handler, the addressing mode,    *)
(* the name, the base cycles and the `legal` mark.                         *)
(***************************************************************************)
OP_CODES ==
  LET row(opcode, t) == [opcode |-> opcode, func |-> t[1], addr_mode |-> t[2], name |-> t[3],
                         cycles |-> t[4], legal |-> t[5]]
      table == <<
        <<"brk", "IMP", "BRK", 7, TRUE>>, <<"ora", "IZX", "ORA", 6, TRUE>>, <<"oops", "UNK", "ILL", 0, FALSE>>, <<"slo", "IZX", "SLO", 8, FALSE>>,
        <<"nop", "ZP", "NOP", 3, FALSE>>, <<"ora", "ZP", "ORA", 3, TRUE>>, <<"asl", "ZP", "ASL", 5, TRUE>>, <<"slo", "ZP", "SLO", 5, FALSE>>,
        <<"php", "IMP", "PHP", 3, TRUE>>, <<"ora", "IMM", "ORA", 2, TRUE>>, <<"asl", "ACC", "ASL", 2, TRUE>>, <<"oops", "IMM", "ANC", 2, FALSE>>,
        <<"nop", "ABS", "NOP", 4, FALSE>>, <<"ora", "ABS", "ORA", 4, TRUE>>, <<"asl", "ABS", "ASL", 6, TRUE>>, <<"slo", "ABS", "SLO", 6, FALSE>>,
        <<"bpl", "REL", "BPL", 2, TRUE>>, <<"ora", "IZY", "ORA", 5, TRUE>>, <<"oops", "UNK", "ILL", 0, FALSE>>, <<"slo", "IZY", "SLO", 8, FALSE>>,
        <<"nop", "ZPX", "NOP", 4, FALSE>>, <<"ora", "ZPX", "ORA", 4, TRUE>>, <<"asl", "ZPX", "ASL", 6, TRUE>>, <<"slo", "ZPX", "SLO", 6, FALSE>>,
        <<"clc", "IMP", "CLC", 2, TRUE>>, <<"ora", "ABY", "ORA", 4, TRUE>>, <<"nop", "IMP", "NOP", 2, FALSE>>, <<"slo", "ABY", "SLO", 7, FALSE>>,
        <<"nop", "ABX", "NOP", 4, FALSE>>, <<"ora", "ABX", "ORA", 4, TRUE>>, <<"asl", "ABX", "ASL", 7, TRUE>>, <<"slo", "ABX", "SLO", 7, FALSE>>,
        <<"jsr", "ABS", "JSR", 6, TRUE>>, <<"and", "IZX", "AND", 6, TRUE>>, <<"oops", "UNK", "ILL", 0, FALSE>>, <<"rla", "IZX", "RLA", 8, FALSE>>,
        <<"bit", "ZP", "BIT", 3, TRUE>>, <<"and", "ZP", "AND", 3, TRUE>>, <<"rol", "ZP", "ROL", 5, TRUE>>, <<"rla", "ZP", "RLA", 5, FALSE>>,
        <<"plp", "IMP", "PLP", 4, TRUE>>, <<"and", "IMM", "AND", 2, TRUE>>, <<"rol", "ACC", "ROL", 2, TRUE>>, <<"oops", "IMM", "ANC", 2, FALSE>>,
        <<"bit", "ABS", "BIT", 4, TRUE>>, <<"and", "ABS", "AND", 4, TRUE>>, <<"rol", "ABS", "ROL", 6, TRUE>>, <<"rla", "ABS", "RLA", 6, FALSE>>,
        <<"bmi", "REL", "BMI", 2, TRUE>>, <<"and", "IZY", "AND", 5, TRUE>>, <<"oops", "UNK", "ILL", 0, FALSE>>, <<"rla", "IZY", "RLA", 8, FALSE>>,
        <<"nop", "ZPX", "NOP", 4, FALSE>>, <<"and", "ZPX", "AND", 4, TRUE>>, <<"rol", "ZPX", "ROL", 6, TRUE>>, <<"rla", "ZPX", "RLA", 6, FALSE>>,
        <<"sec", "IMP", "SEC", 2, TRUE>>, <<"and", "ABY", "AND", 4, TRUE>>, <<"nop", "IMP", "NOP", 2, FALSE>>, <<"rla", "ABY", "RLA", 7, FALSE>>,
        <<"nop", "ABX", "NOP", 4, FALSE>>, <<"and", "ABX", "AND", 4, TRUE>>, <<"rol", "ABX", "ROL", 7, TRUE>>, <<"rla", "ABX", "RLA", 7, FALSE>>,
        <<"rti", "IMP", "RTI", 6, TRUE>>, <<"eor", "IZX", "EOR", 6, TRUE>>, <<"oops", "UNK", "ILL", 0, FALSE>>, <<"sre", "IZX", "SRE", 8, FALSE>>,
        <<"nop", "ZP", "NOP", 3, FALSE>>, <<"eor", "ZP", "EOR", 3, TRUE>>, <<"lsr", "ZP", "LSR", 5, TRUE>>, <<"sre", "ZP", "SRE", 5, FALSE>>,
        <<"pha", "IMP", "PHA", 3, TRUE>>, <<"eor", "IMM", "EOR", 2, TRUE>>, <<"lsr", "ACC", "LSR", 2, TRUE>>, <<"oops", "IMM", "ALR", 2, FALSE>>,
        <<"jmp", "ABS", "JMP", 3, TRUE>>, <<"eor", "ABS", "EOR", 4, TRUE>>, <<"lsr", "ABS", "LSR", 6, TRUE>>, <<"sre", "ABS", "SRE", 6, FALSE>>,
        <<"bvc", "REL", "BVC", 2, TRUE>>, <<"eor", "IZY", "EOR", 5, TRUE>>, <<"oops", "UNK", "ILL", 0, FALSE>>, <<"sre", "IZY", "SRE", 8, FALSE>>,
        <<"nop", "ZPX", "NOP", 4, FALSE>>, <<"eor", "ZPX", "EOR", 4, TRUE>>, <<"lsr", "ZPX", "LSR", 6, TRUE>>, <<"sre", "ZPX", "SRE", 6, FALSE>>,
        <<"cli", "IMP", "CLI", 2, TRUE>>, <<"eor", "ABY", "EOR", 4, TRUE>>, <<"nop", "IMP", "NOP", 2, FALSE>>, <<"sre", "ABY", "SRE", 7, FALSE>>,
        <<"nop", "ABX", "NOP", 4, FALSE>>, <<"eor", "ABX", "EOR", 4, TRUE>>, <<"lsr", "ABX", "LSR", 7, TRUE>>, <<"sre", "ABX", "SRE", 7, FALSE>>,
        <<"rts", "IMP", "RTS", 6, TRUE>>, <<"adc", "IZX", "ADC", 6, TRUE>>, <<"oops", "UNK", "ILL", 0, FALSE>>, <<"rra", "IZX", "RRA", 8, FALSE>>,
        <<"nop", "ZP", "NOP", 3, FALSE>>, <<"adc", "ZP", "ADC", 3, TRUE>>, <<"ror", "ZP", "ROR", 5, TRUE>>, <<"rra", "ZP", "RRA", 5, FALSE>>,
        <<"pla", "IMP", "PLA", 4, TRUE>>, <<"adc", "IMM", "ADC", 2, TRUE>>, <<"ror", "ACC", "ROR", 2, TRUE>>, <<"oops", "IMM", "ARR", 2, FALSE>>,
        <<"jmp", "IND", "JMP", 5, TRUE>>, <<"adc", "ABS", "ADC", 4, TRUE>>, <<"ror", "ABS", "ROR", 6, TRUE>>, <<"rra", "ABS", "RRA", 6, FALSE>>,
        <<"bvs", "REL", "BVS", 2, TRUE>>, <<"adc", "IZY", "ADC", 5, TRUE>>, <<"oops", "UNK", "ILL", 0, FALSE>>, <<"rra", "IZY", "RRA", 8, FALSE>>,
        <<"nop", "ZPX", "NOP", 4, FALSE>>, <<"adc", "ZPX", "ADC", 4, TRUE>>, <<"ror", "ZPX", "ROR", 6, TRUE>>, <<"rra", "ZPX", "RRA", 6, FALSE>>,
        <<"sei", "IMP", "SEI", 2, TRUE>>, <<"adc", "ABY", "ADC", 4, TRUE>>, <<"nop", "IMP", "NOP", 2, FALSE>>, <<"rra", "ABY", "RRA", 7, FALSE>>,
        <<"nop", "ABX", "NOP", 4, FALSE>>, <<"adc", "ABX", "ADC", 4, TRUE>>, <<"ror", "ABX", "ROR", 7, TRUE>>, <<"rra", "ABX", "RRA", 7, FALSE>>,
        <<"nop", "IMM", "NOP", 2, FALSE>>, <<"sta", "IZX", "STA", 6, TRUE>>, <<"nop", "IMM", "NOP", 2, FALSE>>, <<"sax", "IZX", "SAX", 6, FALSE>>,
        <<"sty", "ZP", "STY", 3, TRUE>>, <<"sta", "ZP", "STA", 3, TRUE>>, <<"stx", "ZP", "STX", 3, TRUE>>, <<"sax", "ZP", "SAX", 3, FALSE>>,
        <<"dey", "IMP", "DEY", 2, TRUE>>, <<"nop", "IMM", "NOP", 2, FALSE>>, <<"txa", "IMP", "TXA", 2, TRUE>>, <<"oops", "IMM", "XAA", 2, FALSE>>,
        <<"sty", "ABS", "STY", 4, TRUE>>, <<"sta", "ABS", "STA", 4, TRUE>>, <<"stx", "ABS", "STX", 4, TRUE>>, <<"sax", "ABS", "SAX", 4, FALSE>>,
        <<"bcc", "REL", "BCC", 2, TRUE>>, <<"sta", "IZY", "STA", 6, TRUE>>, <<"oops", "UNK", "ILL", 0, FALSE>>, <<"oops", "IZY", "AHX", 6, FALSE>>,
        <<"sty", "ZPX", "STY", 4, TRUE>>, <<"sta", "ZPX", "STA", 4, TRUE>>, <<"stx", "ZPY", "STX", 4, TRUE>>, <<"sax", "ZPY", "SAX", 4, FALSE>>,
        <<"tya", "IMP", "TYA", 2, TRUE>>, <<"sta", "ABY", "STA", 5, TRUE>>, <<"txs", "IMP", "TXS", 2, TRUE>>, <<"oops", "ABY", "TAS", 5, FALSE>>,
        <<"oops", "ABX", "SHY", 5, FALSE>>, <<"sta", "ABX", "STA", 5, TRUE>>, <<"oops", "ABY", "SHX", 5, FALSE>>, <<"oops", "ABY", "AHX", 5, FALSE>>,
        <<"ldy", "IMM", "LDY", 2, TRUE>>, <<"lda", "IZX", "LDA", 6, TRUE>>, <<"ldx", "IMM", "LDX", 2, TRUE>>, <<"lax", "IZX", "LAX", 6, FALSE>>,
        <<"ldy", "ZP", "LDY", 3, TRUE>>, <<"lda", "ZP", "LDA", 3, TRUE>>, <<"ldx", "ZP", "LDX", 3, TRUE>>, <<"lax", "ZP", "LAX", 3, FALSE>>,
        <<"tay", "IMP", "TAY", 2, TRUE>>, <<"lda", "IMM", "LDA", 2, TRUE>>, <<"tax", "IMP", "TAX", 2, TRUE>>, <<"oops", "IMM", "LAX", 2, FALSE>>,
        <<"ldy", "ABS", "LDY", 4, TRUE>>, <<"lda", "ABS", "LDA", 4, TRUE>>, <<"ldx", "ABS", "LDX", 4, TRUE>>, <<"lax", "ABS", "LAX", 4, FALSE>>,
        <<"bcs", "REL", "BCS", 2, TRUE>>, <<"lda", "IZY", "LDA", 5, TRUE>>, <<"oops", "UNK", "ILL", 0, FALSE>>, <<"lax", "IZY", "LAX", 5, FALSE>>,
        <<"ldy", "ZPX", "LDY", 4, TRUE>>, <<"lda", "ZPX", "LDA", 4, TRUE>>, <<"ldx", "ZPY", "LDX", 4, TRUE>>, <<"lax", "ZPY", "LAX", 4, FALSE>>,
        <<"clv", "IMP", "CLV", 2, TRUE>>, <<"lda", "ABY", "LDA", 4, TRUE>>, <<"tsx", "IMP", "TSX", 2, TRUE>>, <<"oops", "ABY", "LAS", 4, FALSE>>,
        <<"ldy", "ABX", "LDY", 4, TRUE>>, <<"lda", "ABX", "LDA", 4, TRUE>>, <<"ldx", "ABY", "LDX", 4, TRUE>>, <<"lax", "ABY", "LAX", 4, FALSE>>,
        <<"cpy", "IMM", "CPY", 2, TRUE>>, <<"cmp", "IZX", "CMP", 6, TRUE>>, <<"nop", "IMM", "NOP", 2, FALSE>>, <<"dcp", "IZX", "DCP", 8, FALSE>>,
        <<"cpy", "ZP", "CPY", 3, TRUE>>, <<"cmp", "ZP", "CMP", 3, TRUE>>, <<"dec", "ZP", "DEC", 5, TRUE>>, <<"dcp", "ZP", "DCP", 5, FALSE>>,
        <<"iny", "IMP", "INY", 2, TRUE>>, <<"cmp", "IMM", "CMP", 2, TRUE>>, <<"dex", "IMP", "DEX", 2, TRUE>>, <<"oops", "IMM", "AXS", 2, FALSE>>,
        <<"cpy", "ABS", "CPY", 4, TRUE>>, <<"cmp", "ABS", "CMP", 4, TRUE>>, <<"dec", "ABS", "DEC", 6, TRUE>>, <<"dcp", "ABS", "DCP", 6, FALSE>>,
        <<"bne", "REL", "BNE", 2, TRUE>>, <<"cmp", "IZY", "CMP", 5, TRUE>>, <<"oops", "UNK", "ILL", 0, FALSE>>, <<"dcp", "IZY", "DCP", 8, FALSE>>,
        <<"nop", "ZPX", "NOP", 4, FALSE>>, <<"cmp", "ZPX", "CMP", 4, TRUE>>, <<"dec", "ZPX", "DEC", 6, TRUE>>, <<"dcp", "ZPX", "DCP", 6, FALSE>>,
        <<"cld", "IMP", "CLD", 2, TRUE>>, <<"cmp", "ABY", "CMP", 4, TRUE>>, <<"nop", "IMP", "NOP", 2, FALSE>>, <<"dcp", "ABY", "DCP", 7, FALSE>>,
        <<"nop", "ABX", "NOP", 4, FALSE>>, <<"cmp", "ABX", "CMP", 4, TRUE>>, <<"dec", "ABX", "DEC", 7, TRUE>>, <<"dcp", "ABX", "DCP", 7, FALSE>>,
        <<"cpx", "IMM", "CPX", 2, TRUE>>, <<"sbc", "IZX", "SBC", 6, TRUE>>, <<"nop", "IMM", "NOP", 2, FALSE>>, <<"isb", "IZX", "ISB", 8, FALSE>>,
        <<"cpx", "ZP", "CPX", 3, TRUE>>, <<"sbc", "ZP", "SBC", 3, TRUE>>, <<"inc", "ZP", "INC", 5, TRUE>>, <<"isb", "ZP", "ISB", 5, FALSE>>,
        <<"inx", "IMP", "INX", 2, TRUE>>, <<"sbc", "IMM", "SBC", 2, TRUE>>, <<"nop", "IMP", "NOP", 2, TRUE>>, <<"sbc", "IMM", "SBC", 2, FALSE>>,
        <<"cpx", "ABS", "CPX", 4, TRUE>>, <<"sbc", "ABS", "SBC", 4, TRUE>>, <<"inc", "ABS", "INC", 6, TRUE>>, <<"isb", "ABS", "ISB", 6, FALSE>>,
        <<"beq", "REL", "BEQ", 2, TRUE>>, <<"sbc", "IZY", "SBC", 5, TRUE>>, <<"oops", "UNK", "ILL", 0, FALSE>>, <<"isb", "IZY", "ISB", 8, FALSE>>,
        <<"nop", "ZPX", "NOP", 4, FALSE>>, <<"sbc", "ZPX", "SBC", 4, TRUE>>, <<"inc", "ZPX", "INC", 6, TRUE>>, <<"isb", "ZPX", "ISB", 6, FALSE>>,
        <<"sed", "IMP", "SED", 2, TRUE>>, <<"sbc", "ABY", "SBC", 4, TRUE>>, <<"nop", "IMP", "NOP", 2, FALSE>>, <<"isb", "ABY", "ISB", 7, FALSE>>,
        <<"nop", "ABX", "NOP", 4, FALSE>>, <<"sbc", "ABX", "SBC", 4, TRUE>>, <<"inc", "ABX", "INC", 7, TRUE>>, <<"isb", "ABX", "ISB", 7, FALSE>> >>
  IN [opcode \in 0 .. 255 |-> row(opcode, table[opcode + 1])]

(***************************************************************************)
(* While an instruction of the table executes, x also carries the table    *)
(* row `ins` of the opcode, operand_address, operand_value and             *)
(* page_penalty of the Cpu, `exited` once the process has exited, and      *)
(* `underflow` once a cycle subtraction went below zero.                   *)
(***************************************************************************)

\* Cpu::set_operand_address; `operand` is the byte or the word after the opcode
set_operand_address(x, operand) ==
  LET indexed(base, index) ==
        [x EXCEPT !.operand_address = (base + index) % 65536,
                  !.page_penalty = IF same_page(base, (base + index) % 65536) THEN 0 ELSE 1]
      zp_word(zp_addr) ==
        IF zp_addr = 255
        THEN do_mem_read(x, 0).value * 256 + do_mem_read(x, 255).value
        ELSE cpu_mem_read_word(x.state, zp_addr)
      ind(lsb_addr, msb_addr) ==
        [x EXCEPT !.operand_address = do_mem_read(x, msb_addr).value * 256
                                        + do_mem_read(x, lsb_addr).value]
  IN CASE x.ins.addr_mode \in {"IMM", "REL"} -> [x EXCEPT !.operand_value = operand]
       [] x.ins.addr_mode \in {"ABS", "ZP"} -> [x EXCEPT !.operand_address = operand]
       [] x.ins.addr_mode = "IND" ->
            ind(operand, IF operand % 256 = 255 THEN operand - 255 ELSE operand + 1)
       [] x.ins.addr_mode = "ABX" -> indexed(operand, x.cpu.X)
       [] x.ins.addr_mode = "ABY" -> indexed(operand, x.cpu.Y)
       [] x.ins.addr_mode = "ZPX" -> [x EXCEPT !.operand_address = (operand + x.cpu.X) % 256]
       [] x.ins.addr_mode = "ZPY" -> [x EXCEPT !.operand_address = (operand + x.cpu.Y) % 256]
       [] x.ins.addr_mode = "IZX" ->
            [x EXCEPT !.operand_address = zp_word((operand + x.cpu.X) % 256)]
       [] x.ins.addr_mode = "IZY" -> indexed(zp_word(operand), x.cpu.Y)
       [] x.ins.addr_mode = "ACC" -> [x EXCEPT !.operand_value = x.cpu.A]
       [] OTHER -> x

\* a comparison that sets the carry only when the register is greater
do_comparison_carry_on_greater(P, register, mem_value) ==
  LET c == IF register > mem_value THEN set_bit(0, P) ELSE clear_bit(0, P)
      z == IF register = mem_value THEN set_bit(1, c) ELSE clear_bit(1, c)
  IN set_bit_from(7, (register + 256 - mem_value) % 256, z)

\* Cpu::do_comparison: the new P
do_comparison(P, register, mem_value) ==
  LET c == IF register >= mem_value THEN set_bit(0, P) ELSE clear_bit(0, P)
      z == IF register = mem_value THEN set_bit(1, c) ELSE clear_bit(1, c)
  IN set_bit_from(7, (register + 256 - mem_value) % 256, z)

\* `(instruction.func)(self, mc)` of Cpu::execute: the handler of the table row runs
\* on the operand the addressing mode left
instruction_func(x) ==
  LET nz(P, input) == update_processor_status_nz_flags(P, input)
      with_flag(P, flag_bit, on) == IF on THEN set_bit(flag_bit, P) ELSE clear_bit(flag_bit, P)
      as_i8(v) == IF v >= 128 THEN v - 256 ELSE v
      carry_set(y) == bit_is_set(0, y.cpu.P)
      fetch_operand(y) ==
        LET read(r) == [y EXCEPT !.state = r.state, !.operand_value = r.value]
        IN IF y.ins.addr_mode \in {"ABS", "ZP", "ABX", "ABY", "ZPX", "ZPY", "IZX", "IZY"}
           THEN read(do_mem_read(y, y.operand_address))
           ELSE y
      apply_page_penalty(y) == [y EXCEPT !.extra_cycles = @ + y.page_penalty]
      \* `self.extra_cycles -= self.page_penalty` on a u64
      subtract_page_penalty(y) ==
        IF y.extra_cycles >= y.page_penalty
        THEN [y EXCEPT !.extra_cycles = @ - y.page_penalty]
        ELSE [y EXCEPT !.overflowed = TRUE]
      taken(y, dest) ==
        [y EXCEPT !.extra_cycles = @ + 1 + (IF same_page(dest, y.cpu.PC) THEN 0 ELSE 1),
                  !.cpu.PC = dest]
      branch_if_set(y, flag_bit) ==
        IF bit_is_set(flag_bit, y.cpu.P)
        THEN taken(y, get_branch_destination(y.cpu, y.operand_value))
        ELSE y
      \* the two overflowing_add of adc, unsigned and signed
      added(y, a, m, carry) ==
        LET u8_result1 == (a + m) % 256
            u8_result2 == (u8_result1 + carry) % 256
            i8_sum1 == as_i8(a) + as_i8(m)
            i8_result1 == as_i8((i8_sum1 + 256) % 256)
            i8_sum2 == i8_result1 + carry
        IN [y EXCEPT !.cpu.A = u8_result2,
                     !.cpu.P = nz(with_flag(with_flag(@, 0, a + m > 255 \/ u8_result1 + carry > 255),
                                            6, i8_sum1 > 127 \/ i8_sum1 < -128
                                                 \/ i8_sum2 > 127 \/ i8_sum2 < -128),
                                  u8_result2)]
      \* the two overflowing_sub of sbc, unsigned and signed; carry is the borrow
      subtracted(y, a, m, carry) ==
        LET u8_result1 == (a + 256 - m) % 256
            u8_result2 == (u8_result1 + 256 - carry) % 256
            i8_diff1 == as_i8(a) - as_i8(m)
            i8_result1 == as_i8((i8_diff1 + 256) % 256)
            i8_diff2 == i8_result1 - carry
        IN [y EXCEPT !.cpu.A = u8_result2,
                     !.cpu.P = nz(with_flag(with_flag(@, 0, ~(a < m \/ u8_result1 < carry)),
                                            6, i8_diff1 > 127 \/ i8_diff1 < -128
                                                 \/ i8_diff2 > 127 \/ i8_diff2 < -128),
                                  u8_result2)]
      adc_on(y) == added(y, y.cpu.A, y.operand_value, IF carry_set(y) THEN 1 ELSE 0)
      adc(y) == apply_page_penalty(adc_on(fetch_operand(y)))
      sbc_on(y) == subtracted(y, y.cpu.A, y.operand_value, IF carry_set(y) THEN 0 ELSE 1)
      sbc(y) == apply_page_penalty(sbc_on(fetch_operand(y)))
      logic(y, result) == [y EXCEPT !.cpu.A = result, !.cpu.P = nz(@, result)]
      and_on(y) == logic(y, BitAnd(y.cpu.A, y.operand_value))
      and(y) == apply_page_penalty(and_on(fetch_operand(y)))
      ora_on(y) == logic(y, BitOr(y.cpu.A, y.operand_value))
      ora(y) == apply_page_penalty(ora_on(fetch_operand(y)))
      eor_on(y) == logic(y, BitOr(y.cpu.A, y.operand_value) - BitAnd(y.cpu.A, y.operand_value))
      eor(y) == apply_page_penalty(eor_on(fetch_operand(y)))
      \* the result of a shift goes to A or to memory, after the flags
      put_result(y, result) ==
        IF y.ins.addr_mode = "ACC"
        THEN [y EXCEPT !.cpu.A = result]
        ELSE do_mem_write(y, y.ins, y.operand_address, result)
      shifted(y, carry_out, result) ==
        put_result([y EXCEPT !.cpu.P = nz(with_flag(@, 0, carry_out), result)], result)
      asl_on(y) == shifted(y, bit_is_set(7, y.operand_value), (y.operand_value * 2) % 256)
      asl(y) == asl_on(fetch_operand(y))
      lsr_on(y) == shifted(y, bit_is_set(0, y.operand_value), y.operand_value \div 2)
      lsr(y) == lsr_on(fetch_operand(y))
      rol_on(y) == shifted(y, bit_is_set(7, y.operand_value),
                           ((y.operand_value * 2) % 256) + (IF carry_set(y) THEN 1 ELSE 0))
      rol(y) == rol_on(fetch_operand(y))
      ror_on(y) == shifted(y, bit_is_set(0, y.operand_value),
                           (y.operand_value \div 2) + (IF carry_set(y) THEN 128 ELSE 0))
      ror(y) == ror_on(fetch_operand(y))
      stored(y, value) ==
        do_mem_write([y EXCEPT !.cpu.P = nz(@, value)], y.ins, y.operand_address, value)
      counted(y, r, delta) == stored([y EXCEPT !.state = r.state], (r.value + delta) % 256)
      inc(y) == counted(y, do_mem_read(y, y.operand_address), 1)
      dec(y) == counted(y, do_mem_read(y, y.operand_address), 255)
      compared(y, register, mem_value) ==
        [y EXCEPT !.cpu.P = do_comparison(@, register, mem_value)]
      cmp_on(y) == compared(y, y.cpu.A, y.operand_value)
      cpx_on(y) == compared(y, y.cpu.X, y.operand_value)
      cpy_on(y) == compared(y, y.cpu.Y, y.operand_value)
      dcp_on(y) == compared(y, y.cpu.A, y.writes[Len(y.writes)].value)
      load_a(y) == logic(y, y.operand_value)
      load_x(y) == [y EXCEPT !.cpu.X = y.operand_value, !.cpu.P = nz(@, y.operand_value)]
      load_y(y) == [y EXCEPT !.cpu.Y = y.operand_value, !.cpu.P = nz(@, y.operand_value)]
      lax_on(y) == [load_a(y) EXCEPT !.cpu.X = y.operand_value]
      bit_on(y) ==
        [y EXCEPT !.cpu.P = set_bit_from(7, y.operand_value, set_bit_from(6, y.operand_value,
                              with_flag(@, 1, BitAnd(y.cpu.A, y.operand_value) = 0)))]
      to_x(y, value) == [y EXCEPT !.cpu.X = value, !.cpu.P = nz(@, value)]
      to_y(y, value) == [y EXCEPT !.cpu.Y = value, !.cpu.P = nz(@, value)]
      flag(y, flag_bit, on) == [y EXCEPT !.cpu.P = with_flag(@, flag_bit, on)]
      pushed_p(y) == set_bit(5, set_bit(4, y.cpu.P))
      brk_on(y) == [y EXCEPT !.cpu.PC = cpu_mem_read_word(y.state, 65534),
                             !.cpu.P = set_bit(4, @)]
      jump_to(y) == [y EXCEPT !.cpu.PC = y.operand_address]
      pla_on(r) == logic(r.x, r.value)
      \* `self.reg.PC += 1` on a u16
      rts_on(r) == IF r.value = 65535
                   THEN [r.x EXCEPT !.cpu.PC = 0, !.overflowed = TRUE]
                   ELSE [r.x EXCEPT !.cpu.PC = r.value + 1]
      f == x.ins.func
  IN CASE f = "adc" -> adc(x)
       [] f = "and" -> and(x)
       [] f = "asl" -> asl(x)
       [] f = "bcc" -> branch_if_clear(fetch_operand(x), 0, x.operand_value)
       [] f = "bcs" -> branch_if_set(fetch_operand(x), 0)
       [] f = "beq" -> branch_if_set(fetch_operand(x), 1)
       [] f = "bit" -> bit_on(fetch_operand(x))
       [] f = "bmi" -> branch_if_set(fetch_operand(x), 7)
       [] f = "bne" -> branch_if_clear(fetch_operand(x), 1, x.operand_value)
       [] f = "bpl" -> branch_if_clear(fetch_operand(x), 7, x.operand_value)
       [] f = "brk" -> brk_on(stack_push(stack_push_word(x, x.ins, x.cpu.PC), x.ins, pushed_p(x)))
       [] f = "bvc" -> branch_if_clear(fetch_operand(x), 6, x.operand_value)
       [] f = "bvs" -> branch_if_set(fetch_operand(x), 6)
       [] f = "clc" -> flag(x, 0, FALSE)
       [] f = "cld" -> flag(x, 3, FALSE)
       [] f = "cli" -> flag(x, 2, FALSE)
       [] f = "clv" -> flag(x, 6, FALSE)
       [] f = "cmp" -> apply_page_penalty(cmp_on(fetch_operand(x)))
       [] f = "cpx" -> cpx_on(fetch_operand(x))
       [] f = "cpy" -> cpy_on(fetch_operand(x))
       [] f = "dcp" -> dcp_on(dec(x))
       [] f = "dec" -> dec(x)
       [] f = "dex" -> to_x(x, (x.cpu.X + 255) % 256)
       [] f = "dey" -> to_y(x, (x.cpu.Y + 255) % 256)
       [] f = "eor" -> eor(x)
       [] f = "inc" -> inc(x)
       [] f = "inx" -> to_x(x, (x.cpu.X + 1) % 256)
       [] f = "iny" -> to_y(x, (x.cpu.Y + 1) % 256)
       [] f = "isb" -> subtract_page_penalty(sbc(inc(x)))
       [] f = "jmp" -> jump_to(x)
       [] f = "jsr" -> jump_to(stack_push_word(x, x.ins, x.cpu.PC - 1))
       [] f = "lax" -> apply_page_penalty(lax_on(fetch_operand(x)))
       [] f = "lda" -> apply_page_penalty(load_a(fetch_operand(x)))
       [] f = "ldx" -> apply_page_penalty(load_x(fetch_operand(x)))
       [] f = "ldy" -> apply_page_penalty(load_y(fetch_operand(x)))
       [] f = "lsr" -> lsr(x)
       [] f = "nop" -> apply_page_penalty(x)
       [] f = "ora" -> ora(x)
       [] f = "pha" -> stack_push(x, x.ins, x.cpu.A)
       [] f = "php" -> stack_push(x, x.ins, pushed_p(x))
       [] f = "pla" -> pla_on(stack_pull(x))
       [] f = "plp" -> set_p_from_stack(x)
       [] f = "rla" -> subtract_page_penalty(and(rol(x)))
       [] f = "rol" -> rol(x)
       [] f = "ror" -> ror(x)
       [] f = "rra" -> subtract_page_penalty(adc(ror(x)))
       [] f = "rti" -> rti(x)
       [] f = "rts" -> rts_on(stack_pull_word(x))
       [] f = "sax" -> do_mem_write(x, x.ins, x.operand_address, BitAnd(x.cpu.A, x.cpu.X))
       [] f = "sbc" -> sbc(x)
       [] f = "sec" -> flag(x, 0, TRUE)
       [] f = "sed" -> flag(x, 3, TRUE)
       [] f = "sei" -> flag(x, 2, TRUE)
       [] f = "slo" -> subtract_page_penalty(ora(asl(x)))
       [] f = "sre" -> subtract_page_penalty(eor(lsr(x)))
       [] f = "sta" -> do_mem_write(x, x.ins, x.operand_address, x.cpu.A)
       [] f = "stx" -> do_mem_write(x, x.ins, x.operand_address, x.cpu.X)
       [] f = "sty" -> do_mem_write(x, x.ins, x.operand_address, x.cpu.Y)
       [] f = "tax" -> to_x(x, x.cpu.A)
       [] f = "tay" -> to_y(x, x.cpu.A)
       [] f = "tsx" -> to_x(x, x.cpu.SP)
       [] f = "txa" -> logic(x, x.cpu.X)
       [] f = "txs" -> [x EXCEPT !.cpu.SP = x.cpu.X]
       [] f = "tya" -> logic(x, x.cpu.Y)
       [] f = "oops" -> [x EXCEPT !.exited = TRUE]

\* Cpu::execute on the opcode at PC and the operand bytes after it: the x the handler
\* leaves, with the cycles the call returns
execute_opcode(c, s, opcode, operand) ==
  LET returned(x1) == [x1 EXCEPT !.cycles = x1.ins.cycles + x1.extra_cycles]
      decoded(ins, PC) ==
        [cpu |-> [c EXCEPT !.PC = PC % 65536], state |-> s, extra_cycles |-> 0,
         writes |-> <<>>, ins |-> ins, operand_address |-> 0, operand_value |-> 0,
         page_penalty |-> 0, cycles |-> 0, exited |-> FALSE,
         \* `self.reg.PC += 1` of read_byte on a u16
         overflowed |-> PC > 65535]
  IN returned(instruction_func(set_operand_address(
       decoded(OP_CODES[opcode], c.PC + bytes_consumed(OP_CODES[opcode])), operand)))

(***************************************************************************)
(* One instruction of the table, or a push and the pull that answers it,   *)
(* executed from a Cpu in the middle of a program.  The work RAM holds a   *)
(* pointer in the zero page, a pointer across the zero page's end, bytes   *)
(* under the operand addresses and bytes in the stack page; the IRQ vector *)
(* is $C200.                                                               *)
(***************************************************************************)
InitCpuOps ==
  LET memory == (0 :> 3) @@ (16 :> 255) @@ (17 :> 2) @@ (255 :> 128)
                  @@ (256 :> 255) @@ (257 :> 16) @@ (510 :> 207) @@ (511 :> 193)
                  @@ (767 :> 127) @@ (768 :> 128) @@ (896 :> 1) @@ (65535 :> 194)
  IN /\ ppu = Ppu_new
     /\ mapper = [Mapper_new("any", FALSE) EXCEPT !.cpu_mem = memory @@ @]
     /\ nes = NesState_new
     /\ \E A \in {0, 1, 127, 128, 255}, index \in {0, 1, 255}, P \in {36, 37, 52, 99, 230},
           at \in {<<253, 49152>>, <<0, 49405>>, <<255, 65520>>, <<1, 2>>} :
          cpu = [Cpu_new(Machine(Ppu_new, Mapper_new("any", FALSE), NesState_new)) EXCEPT
                   !.A = A, !.X = index, !.Y = index, !.P = P, !.SP = at[1], !.PC = at[2]]
     /\ main = [Main_new(1, 0) EXCEPT !.pc = "cpu_ops"]
     /\ gui = Gui_new
     /\ obs = 0
     /\ bus = <<>>

\* one pass of the loop of Cpu::cycle_to: execute, then add the cycles used; the operand
\* bytes are drawn by addressing mode, and a pull may answer a push
ExecuteOp ==
  LET Operands(addr_mode) ==
        CASE addr_mode = "IMM" -> {0, 1, 127, 128, 255}
          [] addr_mode = "REL" -> {0, 1, 127, 128, 253, 255}
          [] addr_mode \in {"ZP", "ZPX", "ZPY", "IZX", "IZY"} -> {16, 255}
          [] addr_mode = "ABS" -> {767, 768, 16404}
          [] addr_mode \in {"ABX", "ABY", "IND"} -> {767, 768}
          [] OTHER -> {0}
      Answers(func) ==
        CASE func = "pha" -> {"pla"}
          [] func = "php" -> {"plp"}
          [] func = "jsr" -> {"rts"}
          [] func = "brk" -> {"rti"}
          [] OTHER -> {}
  IN /\ main.pc = "cpu_ops"
     /\ IF bus = <<>> THEN TRUE ELSE Len(bus) = 1 /\ Answers(bus[1].ins.func) # {}
     /\ \E opcode \in 0 .. 255 :
          /\ IF bus = <<>> THEN TRUE ELSE OP_CODES[opcode].func \in Answers(bus[1].ins.func)
          /\ \E operand \in Operands(OP_CODES[opcode].addr_mode) :
               \E r \in {execute_opcode(cpu, Machine(ppu, mapper, nes), opcode, operand)} :
                 \* std::process::exit ends the process where it is; so does the panic of
                 \* the build that checks its arithmetic
                 /\ main' = IF r.exited \/ r.overflowed
                            THEN [main EXCEPT !.pc = "exited"] ELSE main
                 /\ cpu' = [r.cpu EXCEPT !.cycle_count = IF r.exited \/ r.overflowed THEN @
                                                        ELSE cpu.cycle_count + r.cycles]
                 /\ ppu' = r.state.ppu
                 /\ mapper' = r.state.mapper
                 /\ nes' = r.state.nes
                 /\ bus' = Append(bus, [ins |-> r.ins, operand |-> operand, before |-> cpu,
                                        after |-> r.cpu, cycles |-> r.cycles,
                                        extra_cycles |-> r.extra_cycles,
                                        page_penalty |-> r.page_penalty,
                                        operand_address |-> r.operand_address,
                                        operand_value |-> r.operand_value,
                                        writes |-> r.writes, exited |-> r.exited,
                                        overflowed |-> r.overflowed])
     /\ UNCHANGED <<gui, obs>>

SpecCpuOps == InitCpuOps /\ [][ExecuteOp]_vars


\* the carry a step starts with
CarryIn(call) == IF bit_is_set(0, call.before.P) THEN 1 ELSE 0

\* the register file apart from PC and the cycle count
Registers8(c) == <<c.A, c.X, c.Y, c.SP, c.P>>

(* C21: after ADC, A and the carry are the 9-bit sum A + operand + C_in; V is set    *)
(* exactly when ((A ^ result) & (operand ^ result) & 0x80) is not zero, N is bit 7   *)
(* of the result and Z is set exactly when the result is 0.                           *)
C21_AdcFlags ==
  \A i \in DOMAIN bus :
    bus[i].ins.func = "adc" =>
      LET sum == bus[i].before.A + bus[i].operand_value + CarryIn(bus[i])
          result == sum % 256
      IN /\ bus[i].after.A = result
         /\ bit_is_set(0, bus[i].after.P) <=> sum > 255
         /\ bit_is_set(6, bus[i].after.P) <=>
              /\ bit_is_set(7, bus[i].before.A) # bit_is_set(7, result)
              /\ bit_is_set(7, bus[i].operand_value) # bit_is_set(7, result)
         /\ bit_is_set(7, bus[i].after.P) <=> bit_is_set(7, result)
         /\ bit_is_set(1, bus[i].after.P) <=> result = 0


\* A and the flags C, V, N, Z of a Cpu
ArithmeticResult(c) ==
  <<c.A, bit_is_set(0, c.P), bit_is_set(6, c.P), bit_is_set(7, c.P), bit_is_set(1, c.P)>>

(* C22: SBC leaves the same A, C, V, N and Z as ADC run from the same state with its  *)
(* operand XOR 0xFF.                                                                  *)
C22_SbcIsAdcOfComplement ==
  \A i \in DOMAIN bus :
    bus[i].ins.func = "sbc" /\ bus[i].ins.addr_mode = "IMM" =>
      ArithmeticResult(bus[i].after)
        = ArithmeticResult(execute_opcode(bus[i].before, Machine(ppu, mapper, nes),
                                          105, 255 - bus[i].operand).cpu)


\* whether the branch of the step is taken, by the flag its instruction tests
BranchTaken(call) ==
  CASE call.ins.func = "bcc" -> ~bit_is_set(0, call.before.P)
    [] call.ins.func = "bcs" -> bit_is_set(0, call.before.P)
    [] call.ins.func = "bne" -> ~bit_is_set(1, call.before.P)
    [] call.ins.func = "beq" -> bit_is_set(1, call.before.P)
    [] call.ins.func = "bpl" -> ~bit_is_set(7, call.before.P)
    [] call.ins.func = "bmi" -> bit_is_set(7, call.before.P)
    [] call.ins.func = "bvc" -> ~bit_is_set(6, call.before.P)
    [] call.ins.func = "bvs" -> bit_is_set(6, call.before.P)

IsBranch(call) == call.ins.func \in {"bcc", "bcs", "bne", "beq", "bpl", "bmi", "bvc", "bvs"}

\* PC after the operand byte of a two-byte instruction
PcAfterOperand(call) == (call.before.PC + 2) % 65536

\* PC after the operand plus the sign-extended offset, modulo 2^16
BranchTarget(call) ==
  (PcAfterOperand(call) + (IF call.operand >= 128 THEN call.operand - 256 ELSE call.operand)
     + 65536) % 65536

(* C23: a taken branch leaves PC at PC-after-operand plus the sign-extended offset    *)
(* modulo 2^16 and costs the base 2 cycles plus 1, plus 1 more exactly when the       *)
(* destination is on another page than PC-after-operand; a branch not taken leaves PC *)
(* after the operand and costs the base 2 cycles.                                     *)
C23_Branches ==
  \A i \in DOMAIN bus :
    IsBranch(bus[i]) =>
      /\ bus[i].ins.cycles = 2
      /\ IF BranchTaken(bus[i])
         THEN /\ bus[i].after.PC = BranchTarget(bus[i])
              /\ bus[i].cycles = 3 + (IF BranchTarget(bus[i]) \div 256 = PcAfterOperand(bus[i]) \div 256
                                      THEN 0 ELSE 1)
         ELSE /\ bus[i].after.PC = PcAfterOperand(bus[i])
              /\ bus[i].cycles = 2

\* a branch taken backwards over the bottom of the address space, onto another page
C23_TakenBackwardsAcrossPage ==
  /\ bus # <<>>
  /\ IsBranch(bus[1])
  /\ BranchTaken(bus[1])
  /\ bus[1].operand >= 128
  /\ bus[1].after.PC > bus[1].before.PC
  /\ bus[1].cycles = 4


\* the register a comparison reads
ComparedRegister(call) ==
  CASE call.ins.func = "cmp" -> call.before.A
    [] call.ins.func = "cpx" -> call.before.X
    [] call.ins.func = "cpy" -> call.before.Y

(* C24: CMP, CPX and CPY set C exactly when the register is at least the operand, Z   *)
(* exactly when they are equal and N to bit 7 of (register - operand) mod 256, and    *)
(* change no register and no other flag.                                              *)
C24_Comparisons ==
  \A i \in DOMAIN bus :
    bus[i].ins.func \in {"cmp", "cpx", "cpy"} =>
      /\ bit_is_set(0, bus[i].after.P) <=> ComparedRegister(bus[i]) >= bus[i].operand_value
      /\ bit_is_set(1, bus[i].after.P) <=> ComparedRegister(bus[i]) = bus[i].operand_value
      /\ bit_is_set(7, bus[i].after.P) <=>
           (ComparedRegister(bus[i]) + 256 - bus[i].operand_value) % 256 >= 128
      /\ \A b \in {2, 3, 4, 5, 6} : bit_is_set(b, bus[i].after.P) <=> bit_is_set(b, bus[i].before.P)
      /\ <<bus[i].after.A, bus[i].after.X, bus[i].after.Y, bus[i].after.SP>>
           = <<bus[i].before.A, bus[i].before.X, bus[i].before.Y, bus[i].before.SP>>

\* a comparison of equal bytes: from P = $E6 (N, V, I, Z) to P = $67 (V, I, Z, C)
C24_EqualAfterLess ==
  /\ bus # <<>>
  /\ bus[1].ins.func \in {"cmp", "cpx", "cpy"}
  /\ ComparedRegister(bus[1]) = bus[1].operand_value
  /\ bus[1].before.P = 230
  /\ bus[1].after.P = 103


\* the step i is the instruction `pull` answering the instruction `push` before it
Pair(i, push, pull) == i > 1 /\ bus[i - 1].ins.func = push /\ bus[i].ins.func = pull

(* C25: for every SP, 0x00 included, PHA then PLA restores A and SP; PHP then PLP     *)
(* restores SP and bits 0-3, 6 and 7 of P; PLP of any byte leaves bits 4 and 5 of P   *)
(* as they were before the pull; the pushes write within $0100-$01FF.                 *)
C25_PushPull ==
  \A i \in DOMAIN bus :
    /\ Pair(i, "pha", "pla") =>
         /\ bus[i].after.A = bus[i - 1].before.A
         /\ bus[i].after.SP = bus[i - 1].before.SP
         /\ bus[i - 1].writes = <<[addr |-> 256 + bus[i - 1].before.SP,
                                   value |-> bus[i - 1].before.A,
                                   cycle |-> bus[i - 1].writes[1].cycle]>>
    /\ Pair(i, "php", "plp") =>
         /\ bus[i].after.SP = bus[i - 1].before.SP
         /\ \A b \in {0, 1, 2, 3, 6, 7} :
              bit_is_set(b, bus[i].after.P) <=> bit_is_set(b, bus[i - 1].before.P)
         /\ bus[i - 1].writes[1].addr = 256 + bus[i - 1].before.SP
    /\ bus[i].ins.func = "plp" =>
         \A b \in {4, 5} : bit_is_set(b, bus[i].after.P) <=> bit_is_set(b, bus[i].before.P)

\* PHP at SP = 0x00 writes P = $24 as $34 to $0100 and leaves SP = 0xFF; PLP wraps back
C25_PairAcrossStackWrap ==
  /\ Len(bus) = 2
  /\ Pair(2, "php", "plp")
  /\ bus[1].before.SP = 0
  /\ bus[1].before.P = 36
  /\ bus[1].after.SP = 255
  /\ bus[1].writes[1].addr = 256
  /\ bus[1].writes[1].value = 52
  /\ bus[2].after.SP = 0
  /\ bus[2].after.P = 36


\* the addresses and bytes of the writes of a step, in order
Written(call) == [k \in DOMAIN call.writes |-> <<call.writes[k].addr, call.writes[k].value>>]

(* C26: JSR at address a pushes a + 2, high byte then low byte, and jumps to its      *)
(* operand; RTS on the stack as JSR left it sets PC = a + 3 and restores SP.          *)
C26_JsrRts ==
  \A i \in DOMAIN bus :
    /\ bus[i].ins.func = "jsr" =>
         /\ Written(bus[i]) = << <<256 + bus[i].before.SP, (bus[i].before.PC + 2) \div 256>>,
                                 <<256 + ((bus[i].before.SP + 255) % 256),
                                   (bus[i].before.PC + 2) % 256>> >>
         /\ bus[i].after.PC = bus[i].operand
    /\ Pair(i, "jsr", "rts") =>
         /\ bus[i].after.PC = bus[i - 1].before.PC + 3
         /\ bus[i].after.SP = bus[i - 1].before.SP

\* JSR $0300 at $C0FD with SP = 0x00: $C0 to $0100, $FF to $01FF, and RTS returns to $C100
C26_ReturnAcrossStackWrap ==
  /\ Len(bus) = 2
  /\ Pair(2, "jsr", "rts")
  /\ bus[1].before.PC = 49405
  /\ bus[1].before.SP = 0
  /\ Written(bus[1]) = << <<256, 192>>, <<511, 255>> >>
  /\ bus[1].after.PC = 768
  /\ bus[2].after.PC = 49408
  /\ bus[2].after.SP = 0


(* C27: BRK pushes PC + 1, PC being the address after the BRK opcode byte, high byte  *)
(* first, then P with bits 4 and 5 set; it sets I (bit 2) in P and changes no other   *)
(* bit of P, and loads PC from the word at $FFFE.                                     *)
C27_Brk ==
  \A i \in DOMAIN bus :
    bus[i].ins.func = "brk" =>
      /\ Written(bus[i]) = << <<256 + bus[i].before.SP, (bus[i].before.PC + 2) \div 256>>,
                              <<256 + ((bus[i].before.SP + 255) % 256),
                                (bus[i].before.PC + 2) % 256>>,
                              <<256 + ((bus[i].before.SP + 254) % 256),
                                BitOr(bus[i].before.P, 48)>> >>
      /\ bus[i].after.P = BitOr(bus[i].before.P, 4)
      /\ bus[i].after.PC = Memory_read(mapper.cpu_mem, 65535) * 256
                             + Memory_read(mapper.cpu_mem, 65534)


(* C28: a step on an opcode whose table row is the unimplemented handler exits the    *)
(* process, and nothing runs after it; no official opcode and no SLO, RLA, SRE, RRA,  *)
(* SAX, LAX, DCP, ISB or undocumented NOP opcode takes that exit.                     *)
C28_UnimplementedOpcodes ==
  \A i \in DOMAIN bus :
    /\ bus[i].ins.func = "oops" => bus[i].exited /\ main.pc = "exited" /\ i = Len(bus)
    /\ (\/ bus[i].ins.legal
        \/ bus[i].ins.name \in {"SLO", "RLA", "SRE", "RRA", "SAX", "LAX", "DCP", "ISB", "NOP"})
         => ~bus[i].exited


\* the stores, the read-modify-write instructions and the combined undocumented ones
PenaltyFree ==
  {"sta", "stx", "sty", "sax", "asl", "lsr", "rol", "ror", "inc", "dec",
   "slo", "rla", "sre", "rra", "isb", "dcp"}

(* C29: a store, a read-modify-write instruction or a combined undocumented           *)
(* instruction whose target is not $4014 returns exactly the base cycles of its table *)
(* row, whether or not the effective address crossed a page, and the extra cycles     *)
(* never go below zero while it executes.                                             *)
C29_NoPagePenalty ==
  \A i \in DOMAIN bus :
    bus[i].ins.func \in PenaltyFree /\ bus[i].operand_address # 16404 =>
      /\ bus[i].cycles = bus[i].ins.cycles
      /\ bus[i].extra_cycles = 0
      /\ ~bus[i].overflowed

\* RRA $02FF,X with X = 1: the effective address $0300 is on the next page, 7 cycles
C29_CombinedAcrossPage ==
  /\ bus # <<>>
  /\ bus[1].ins.opcode = 127
  /\ bus[1].ins.func = "rra"
  /\ bus[1].operand = 767
  /\ bus[1].operand_address = 768
  /\ bus[1].page_penalty = 1
  /\ bus[1].cycles = 7


(***************************************************************************)
(* The PPU dot by dot over two visible scanlines, on a primary OAM that a  *)
(* program has filled: entry n holds its Y, the tile n + 1, an attribute   *)
(* byte that goes with n mod 4 (palette 1 in front; palette 1 flipped      *)
(* horizontally; palette 2 behind the background; palette 1 flipped        *)
(* vertically) and the X 5n mod 256.  The images differ in the Ys: no      *)
(* sprite on any of the lines, all 64 at Y = 16, the eight odd entries     *)
(* 1..15 at Y = 16, entries 0, 2 and 63 at Y = 16 with entry 5 at Y = 10,  *)
(* and the nine entries 0..8 at Y = 232.  The cartridge's pattern table    *)
(* has the rows 0 and 1 of tile 0 (the tile of the empty nametables) and   *)
(* the rows 6 and 7 of tiles 1, 2 and 3; the palette holds distinct        *)
(* colours, the backdrop entries paired as PpuMemory::write leaves them.   *)
(* PPUMASK is any of: nothing shown, sprites only, both with the left      *)
(* eight pixels hidden, both shown everywhere.  obs keeps the first        *)
(* scanline, the entries examined on the current scanline, PPUSTATUS as    *)
(* the scanline began, the Ppu before the last dot and that dot's result.  *)
(* A panic ends the run.                                                   *)
(***************************************************************************)
InitPpuDots ==
  LET ys(image, n) ==
        CASE image = "none" -> 255
          [] image = "all" -> 16
          [] image = "odd" -> IF n % 2 = 1 /\ n <= 15 THEN 16 ELSE 240
          [] image = "some" -> IF n \in {0, 2, 63} THEN 16 ELSE IF n = 5 THEN 10 ELSE 255
          [] image = "nine" -> IF n <= 8 THEN 232 ELSE 255
      attributes(n) ==
        CASE n % 4 = 0 -> 1
          [] n % 4 = 1 -> 65
          [] n % 4 = 2 -> 34
          [] n % 4 = 3 -> 129
      byte(image, a) ==
        CASE a % 4 = 0 -> ys(image, a \div 4)
          [] a % 4 = 1 -> (a \div 4) + 1
          [] a % 4 = 2 -> attributes(a \div 4)
          [] a % 4 = 3 -> (5 * (a \div 4)) % 256
      oam(image) == [a \in {b \in 0 .. 255 : byte(image, b) # 0} |-> byte(image, a)]
      pattern == (0 :> 240) @@ (1 :> 240) @@ (22 :> 145) @@ (23 :> 145)
                   @@ (38 :> 6) @@ (39 :> 6) @@ (54 :> 192) @@ (55 :> 192)
      palette == (16128 :> 1) @@ (16129 :> 2) @@ (16132 :> 5) @@ (16136 :> 9)
                   @@ (16140 :> 13) @@ (16144 :> 1) @@ (16148 :> 5) @@ (16149 :> 6)
                   @@ (16152 :> 9) @@ (16153 :> 10) @@ (16156 :> 13) @@ (16159 :> 14)
  IN /\ \E image \in {"none", "all", "odd", "some", "nine"}, ppu_ctrl \in {0, 32},
           ppu_mask \in {0, 16, 24, 30}, scanline \in {15, 23, 238} :
          /\ ppu = [Ppu_new EXCEPT !.oam = oam(image), !.ppu_ctrl = ppu_ctrl,
                                   !.ppu_mask = ppu_mask, !.scanline = scanline]
          /\ obs = [first_scanline |-> scanline, examined |-> <<>>, ppu_status |-> 0,
                    before |-> Ppu_new, result |-> PpuCycleResult("Idle", 0, 0, 0, FALSE)]
     /\ mapper = [Mapper_new("any", FALSE) EXCEPT !.ppu_mem.mem = pattern @@ palette]
     /\ nes = NesState_new
     /\ cpu = Cpu_new(Machine(Ppu_new, Mapper_new("any", FALSE), NesState_new))
     /\ main = [Main_new(1, 0) EXCEPT !.pc = "ppu_dots"]
     /\ gui = Gui_new
     /\ bus = <<>>

\* one call of Ppu::cycle
PpuDot ==
  /\ main.pc = "ppu_dots"
  /\ ppu.scanline <= obs.first_scanline + 1
  /\ ~ppu.panicked
  /\ \E r \in {Ppu_cycle(ppu, mapper)} :
       /\ ppu' = r.ppu
       /\ obs' = [obs EXCEPT
                    !.examined = IF ppu.scanline_cycle = 0 THEN <<>>
                                 ELSE IF r.ppu.sprite_oam_addr = ppu.sprite_oam_addr + 4
                                 THEN Append(@, ppu.sprite_oam_addr \div 4)
                                 ELSE @,
                    !.ppu_status = IF ppu.scanline_cycle = 0 THEN ppu.ppu_status ELSE @,
                    !.before = ppu,
                    !.result = r.result]
  /\ UNCHANGED <<cpu, mapper, nes, main, gui, bus>>

SpecPpuDots == InitPpuDots /\ [][PpuDot]_vars

\* entry n of primary OAM
OamEntry(n) == <<Memory_read(ppu.oam, 4 * n), Memory_read(ppu.oam, 4 * n + 1),
                 Memory_read(ppu.oam, 4 * n + 2), Memory_read(ppu.oam, 4 * n + 3)>>

\* the rows of a sprite are the scanlines Y + 1 .. Y + height: whether the scanline
\* after the current one is among those of entry n
OnNextScanline(n) ==
  /\ OamEntry(n)[1] + 1 <= ppu.scanline + 1
  /\ ppu.scanline + 1 <= OamEntry(n)[1] + (IF bit_is_set(5, ppu.ppu_ctrl) THEN 16 ELSE 8)

\* the entries on the next scanline, in OAM order
SpritesOnNextScanline == SelectSeq([n \in 1 .. 64 |-> n - 1], OnNextScanline)

(* C30: on a visible scanline, at dot 257 the 64 entries of primary OAM have each     *)
(* been examined once, in OAM order; secondary OAM holds the first min(8, k) of the k *)
(* entries whose rows contain the next scanline and 0xFF in its other slots; the      *)
(* evaluation of the scanline has set PPUSTATUS.O exactly when k > 8; and the first   *)
(* slot is marked as sprite 0 only if entry 0 is one of the k.                        *)
C30_SpriteEvaluation ==
  ppu.scanline <= 239 /\ ppu.scanline_cycle = 257 =>
    /\ obs.examined = [n \in 1 .. 64 |-> n - 1]
    /\ \A slot \in 0 .. 7 :
         ppu.secondary_oam[slot] = IF slot < Len(SpritesOnNextScanline)
                                   THEN OamEntry(SpritesOnNextScanline[slot + 1])
                                   ELSE <<255, 255, 255, 255>>
    /\ ppu.sprite_overflow <=> Len(SpritesOnNextScanline) > 8
    /\ bit_is_set(5, ppu.ppu_status) <=>
         bit_is_set(5, obs.ppu_status) \/ Len(SpritesOnNextScanline) > 8
    /\ ppu.maybe_sprite_0_hit => OnNextScanline(0)

\* nine sprites on scanline 238: eight copied, the flag set by the ninth
C30_NineOnScanline ==
  /\ ppu.scanline = 238
  /\ ppu.scanline_cycle = 257
  /\ Len(SpritesOnNextScanline) = 9
  /\ ppu.secondary_oam[7] = <<232, 8, 129, 35>>
  /\ ppu.maybe_sprite_0_hit
  /\ ~bit_is_set(5, obs.ppu_status)
  /\ bit_is_set(5, ppu.ppu_status)


(***************************************************************************)
(* C31..C40.  The port claims run under SpecPorts, the bank claims under   *)
(* SpecCart, the dot claims under SpecPpuDots and the scheduler's runs.    *)
(***************************************************************************)
\* the PPU as the i-th bus call of the run left it
PpuAfterCall(i) == IF i < Len(bus) THEN bus[i + 1].ppu ELSE ppu

\* C35: a CPU write to $2000, $2001, $2005 or $2006 or to one of their mirrors whose
\* cycle stamp is at most 29658 leaves every field of the PPU as it was, the write
\* toggle included; with a later stamp it takes effect (PPUCTRL and PPUMASK hold the
\* value, $2005 and $2006 flip the toggle).  Writes to $2003, $2004, $2007 and $4014
\* take effect whatever the stamp.
C35_WritesBeforeThePpuIsReady ==
  \A i \in DOMAIN bus :
    LET call == bus[i]
        before == call.ppu
        after == PpuAfterCall(i)
        gated == \E reg \in {0, 1, 5, 6} : IsWrite(call, reg)
    IN call.op = "write" =>
         /\ gated /\ call.cycle <= 29658 => after = before
         /\ gated /\ call.cycle > 29658 =>
              /\ IsWrite(call, 0) => after.ppu_ctrl = call.value
              /\ IsWrite(call, 1) => after.ppu_mask = call.value
              /\ IsWrite(call, 5) \/ IsWrite(call, 6) => after.w # before.w
         /\ IsWrite(call, 3) => after.oam_addr = call.value
         /\ IsWrite(call, 4) =>
              /\ Memory_read(after.oam, before.oam_addr) = call.value
              /\ after.oam_addr = (before.oam_addr + 1) % 256
         /\ IsWrite(call, 7) => after.v = (before.v + get_vram_increment(before)) % 65536
         /\ call.addr = 16404 /\ i = Len(bus) =>
              \A n \in 0 .. 255 :
                Memory_read(after.oam, (before.oam_addr + n) % 256)
                  = Memory_read(mapper.cpu_mem, call.value * 256 + n)

\* a run of two writes to $2005, the first stamped 29658 and dropped with the toggle
\* at FirstWrite, the second stamped 29659 and taken as the first write of the pair
C35_DroppedThenTaken ==
  /\ Len(bus) = 2
  /\ IsWrite(bus[1], 5) /\ bus[1].cycle = 29658 /\ bus[1].ppu.w = "FirstWrite"
  /\ IsWrite(bus[2], 5) /\ bus[2].cycle = 29659 /\ bus[2].ppu = bus[1].ppu
  /\ ppu.w = "SecondWrite" /\ ppu.x = 5 /\ ppu.t % 32 = 15


\* C37: v and t stay within 15 bits after every register access: a read or a write
\* of $2007 that adds the VRAM increment to v wraps it within the PPU's address
\* range.
C37_AddressRegistersStayIn15Bits ==
  \A i \in DOMAIN bus :
    /\ bus[i].ppu.v <= 32767 /\ bus[i].ppu.t <= 32767
    /\ PpuAfterCall(i).v <= 32767 /\ PpuAfterCall(i).t <= 32767


\* C39: no bank-select write faults: the UNROM bank index (value & 0x0F) and the MMC1
\* PRG bank index delivered by the shift register (bank + 1 too in 32 KiB mode) always
\* name a PRG bank of the loaded cartridge.
C39_BankSelectNeverFaults ==
  main.pc = "cart" => ~mapper.panicked


\* C38: filling the eight sprite buffers on dots 257-320 of a visible scanline never
\* faults: the row computation scanline - Y of set_pattern_lsb_msb never leaves the
\* range of its unsigned type, an empty slot (Y = 0xFF) included, and the 8x16 sprite
\* size is handled, so todo!() is never met.
C38_SpriteFillNeverFaults ==
  main.pc = "ppu_dots" => "set_pattern_lsb_msb" \notin ppu.overflowed /\ ~ppu.panicked


\* C33: for every sprite buffer with X position sx and every screen column x with
\* 0 <= x - sx <= 7, get_palette_value reads bit 7 - (x - sx) of both bit planes when
\* the sprite is not flipped horizontally and bit x - sx when it is, and no 8-bit
\* subtraction and no shift amount leaves its range.
C33_SpritePatternBit ==
  main.pc = "ppu_dots" =>
    \A n \in 0 .. 7, screen_x \in 0 .. 255 :
      LET sprite == ppu.sprite_buffers[n]
          offset == screen_x - sprite.x_position
          bit == IF sprite.flip_horizontally THEN offset ELSE 7 - offset
          set(byte) == IF bit_is_set(bit, byte) THEN 1 ELSE 0
      IN offset \in 0 .. 7 =>
           get_palette_value(sprite, screen_x)
             = [palette_value |-> 2 * set(sprite.pattern_tile_msb) + set(sprite.pattern_tile_lsb),
                overflowed |-> FALSE]


\* C31: at every visible dot the pixel put out is chosen so: among the sprite buffers
\* covering the dot the lowest-indexed one with a non-zero pattern value is selected;
\* its colour is put out if it has foreground priority or the background pattern value
\* is 0, otherwise the background's colour; with no covering sprite of non-zero
\* pattern value the background's colour is put out, which is the universal backdrop
\* $3F00 when background rendering is disabled or the background pattern value is 0.
C31_PixelMux ==
  main.pc = "ppu_dots" /\ obs.result.kind = "Pixel" =>
    LET p == obs.before
        screen_x == p.scanline_cycle - 1
        value(n) == get_palette_value(p.sprite_buffers[n], screen_x).palette_value
        Covering == IF render_sprites(p)
                    THEN {n \in 0 .. 7 : screen_x - p.sprite_buffers[n].x_position \in 0 .. 7}
                    ELSE {}
        Opaque == {n \in Covering : value(n) # 0}
        bg == get_bg_color_index(p, mapper)
        bg_value == IF render_bg(p) THEN bg.palette_value ELSE 0
        bg_color == IF bg_value = 0 THEN Mapper_ppu_read(mapper, 16128) ELSE bg.color_index
        sprite_color(n) ==
          Mapper_ppu_read(mapper, 16144 + 4 * p.sprite_buffers[n].palette + value(n))
        selected == CHOOSE n \in Opaque : \A k \in Opaque : n <= k
    IN obs.result.color =
         IF Opaque = {} THEN bg_color
         ELSE IF p.sprite_buffers[selected].priority = "InFrontOfBackground" \/ bg_value = 0
         THEN sprite_color(selected)
         ELSE bg_color


\* C32: PPUSTATUS.S (bit 6) is set by a visible dot only if the background pattern
\* value is non-zero, the chosen non-transparent sprite is sprite 0, the dot is not
\* 255, and neither the sprites nor the background are hidden at that dot by the
\* clipping of the left eight pixels (PPUMASK bits 2 and 1).
C32_SpriteZeroHit ==
  main.pc = "ppu_dots" /\ ~bit_is_set(6, obs.before.ppu_status) /\ bit_is_set(6, ppu.ppu_status) =>
    LET p == obs.before
        screen_x == p.scanline_cycle - 1
        value(n) == get_palette_value(p.sprite_buffers[n], screen_x).palette_value
        Opaque == {n \in 0 .. 7 : /\ screen_x - p.sprite_buffers[n].x_position \in 0 .. 7
                                  /\ value(n) # 0}
        selected == CHOOSE n \in Opaque : \A k \in Opaque : n <= k
    IN /\ obs.result.kind = "Pixel"
       /\ render_bg(p) /\ render_sprites(p)
       /\ get_bg_color_index(p, mapper).palette_value # 0
       /\ Opaque # {}
       /\ p.sprite_buffers[selected].is_sprite_0
       /\ p.scanline_cycle # 255
       /\ screen_x <= 7 => bit_is_set(1, p.ppu_mask) /\ bit_is_set(2, p.ppu_mask)


\* C36: the background fetch state never gets out of step with the dot counter: at
\* every dot d with d mod 8 = 0 in 1..256 of a visible scanline and in 321..336 of a
\* visible or the pre-render scanline, the tick finds the fetch state at the read of
\* the upper bit plane when it refills the shift registers, in even and in odd frames,
\* and update_bg_shift_registers never panics.
C36_FetchStateInStep ==
  /\ ~ppu.out_of_sync
  /\ \A i \in DOMAIN obs.log :
       LET tick == obs.log[i]
           refills == /\ tick.scanline_cycle % 8 = 0
                      /\ \/ tick.scanline <= 239 /\ tick.scanline_cycle \in 1 .. 256
                         \/ /\ tick.scanline <= 239 \/ tick.scanline = 261
                            /\ tick.scanline_cycle \in 321 .. 336
       IN refills => tick.fetch_state = "BackgroundMSBRead"

\* the first refill of an odd frame that skipped dot 0 of scanline 0 with rendering
\* enabled, in step
C36_RefillInOddFrame ==
  /\ LoopBoundary
  /\ obs.wrapped /\ obs.frame_odd /\ obs.frame_rendering /\ obs.frame_first_dot = 1
  /\ \E i \in DOMAIN obs.log :
       /\ obs.log[i].scanline = 0
       /\ obs.log[i].scanline_cycle = 8
       /\ obs.log[i].fetch_state = "BackgroundMSBRead"
  /\ ~ppu.out_of_sync


\* C34: a write to $2000 sets bits 10-11 of t to the low two bits of the value and
\* changes no other bit of t and no bit of v; with background rendering enabled, the
\* horizontal bits of v (mask 0x041F) equal those of t right after dot 257 of every
\* visible and pre-render scanline, and the vertical bits of v (mask 0x7BE0) equal
\* those of t right after each of the dots 280-304 of the pre-render scanline.  The
\* write is one the PPU accepts, in a call of cycle_to that writes no other port of
\* v and t.
C34_NametableSelect ==
  /\ \A n \in DOMAIN obs.steps : \A j \in DOMAIN obs.steps[n].writes :
       LET wr == obs.steps[n].writes[j]
           alone == \A k \in DOMAIN obs.steps : \A l \in DOMAIN obs.steps[k].writes :
                      /\ \A reg \in {5, 6, 7} : ~IsPort(obs.steps[k].writes[l].addr, reg)
                      /\ IsPort(obs.steps[k].writes[l].addr, 0) => k = n /\ l = j
       IN IsPort(wr.addr, 0) /\ wr.cycle > PPU_READY_CYCLE /\ alone =>
            /\ BitAnd(obs.after.t, 3072) = (wr.value % 4) * 1024
            /\ BitAnd(obs.after.t, 32767 - 3072) = BitAnd(obs.before.t, 32767 - 3072)
            /\ obs.after.t <= 32767
            /\ obs.after.v = obs.before.v
  /\ \A i \in DOMAIN obs.log :
       LET tick == obs.log[i]
       IN bit_is_set(3, tick.mask) =>
            /\ tick.scanline_cycle = 257 /\ (tick.scanline <= 239 \/ tick.scanline = 261) =>
                 BitAnd(tick.v_after, 1055) = BitAnd(tick.t_after, 1055)
            /\ tick.scanline = 261 /\ tick.scanline_cycle \in 280 .. 304 =>
                 BitAnd(tick.v_after, 31712) = BitAnd(tick.t_after, 31712)

\* PPUCTRL was written with 3 and the background enabled: the last vertical copy of
\* the pre-render scanline leaves both nametable bits of t in v
C34_NametableReachedV ==
  /\ LoopBoundary
  /\ ppu.ppu_ctrl = 3
  /\ \E i \in DOMAIN obs.log :
       /\ obs.log[i].scanline = 261
       /\ obs.log[i].scanline_cycle = 304
       /\ bit_is_set(3, obs.log[i].mask)
       /\ obs.log[i].t_after = 3072
       /\ BitAnd(obs.log[i].v_after, 3072) = 3072


\* C40: the tick of dot 1 of the pre-render scanline (261) clears the bits V, S and O
\* of PPUSTATUS, and no other tick clears any of them; a call of cycle_to never clears
\* S or O, and it clears V only by a read of $2002.  So V, once set at scanline 241
\* dot 1, stays set until the first $2002 read or that pre-render dot, and S and O
\* once set stay set until that pre-render dot.
C40_StatusFlagsCleared ==
  /\ \A i \in DOMAIN obs.log :
       LET tick == obs.log[i]
       IN IF tick.scanline = 261 /\ tick.scanline_cycle = 1
          THEN \A b \in {5, 6, 7} : ~bit_is_set(b, tick.status_after)
          ELSE \A b \in {5, 6, 7} : bit_is_set(b, tick.status) => bit_is_set(b, tick.status_after)
  /\ \A i \in DOMAIN obs.log :
       obs.log[i].status = IF i = 1 THEN obs.after.ppu_status ELSE obs.log[i - 1].status_after
  /\ \A b \in {5, 6} : bit_is_set(b, obs.before.ppu_status) => bit_is_set(b, obs.after.ppu_status)
  /\ bit_is_set(7, obs.before.ppu_status) /\ ~bit_is_set(7, obs.after.ppu_status) =>
       \E n \in DOMAIN obs.steps :
         /\ ~obs.steps[n].nmi
         /\ \E ins \in Fetch(mapper, obs.steps[n].before) :
              ins.name = "LDA" /\ ins.addr_mode = "ABS" /\ IsPort(ins.operand, 2)

\* the pre-render dot found V and O set, nothing having read $2002 since scanline 241,
\* and cleared them
C40_ClearedAtPreRender ==
  /\ LoopBoundary
  /\ \E i \in DOMAIN obs.log :
       /\ obs.log[i].scanline = 261
       /\ obs.log[i].scanline_cycle = 1
       /\ bit_is_set(7, obs.log[i].status)
       /\ bit_is_set(5, obs.log[i].status)
       /\ BitAnd(obs.log[i].status_after, 224) = 0

====
